---- MODULE Spec2Model ----
(***************************************************************************)
(* VoteX backend: voter identity binding (challenge / signature), vote     *)
(* casting and the election lifecycle, as state machines over the MySQL    *)
(* tables and the ledger calls the handlers make.                          *)
(*                                                                         *)
(* The repository holds several revisions of some handlers; each revision  *)
(* is an action of its own, and each specification runs one set of them.   *)
(***************************************************************************)
EXTENDS Integers, Sequences, FiniteSets, TLC

(***************************************************************************)
(* Bounds of the model                                                     *)
(***************************************************************************)
\* how many challenges (uuidv4 nonces) are issued in one behaviour
MaxNonce == 3
\* how many rows the elections table comes to hold
MaxElections == 3
\* how many votes are submitted to the ledger in one behaviour
MaxTx == 3

(***************************************************************************)
(* Values                                                                  *)
(***************************************************************************)
\* SQL NULL / JS null for a nonce, a wallet address, a recovered address
NoNonce == 0
NoWallet == ""
NoAddress == ""

\* the voter rows of the seed script, keyed by their unique email
Voters == {"voter1@example.com", "voter2@example.com"}
\* an email with no voter row, and the absent field of a request body
UnknownEmail == "nobody@example.com"
Missing == ""

\* wallet addresses as ethers returns them (checksummed, mixed case)
WalletA == "0xA1"
WalletB == "0xB2"
Wallets == {WalletA, WalletB}
\* the address an ECDSA recovery yields when the signature was made over
\* another message: the address of no key anybody holds
StrayAddress == "0xF9"

\* String.prototype.toLowerCase on the addresses of the model
toLowerCase(a) ==
  CASE a = "0xA1" -> "0xa1"
    [] a = "0xB2" -> "0xb2"
    [] a = "0xF9" -> "0xf9"
    [] OTHER -> a

\* the wallet addresses a client may claim: wallet A lower-cased, wallet B
\* in checksum case
ClaimedAddresses == {toLowerCase(WalletA), WalletB}

VOTER_AUTH_MESSAGE_PREFIX == "Authenticate to VoteX: "
OtherPrefix == "Sign in to VoteX: "

\* `${VOTER_AUTH_MESSAGE_PREFIX}${nonce}`: a message is its prefix and the
\* text after it
MessageFor(nonce) == <<VOTER_AUTH_MESSAGE_PREFIX, nonce>>

\* a signature is the key that signed and the message that was signed
Sign(wallet, message) == [signer |-> wallet, msg |-> message]

\* authService.verifyWalletSignature: the address recovered from
\* (message, signature); the signer's checksummed address when the
\* signature was made over this message, a stray address otherwise
verifyWalletSignature(message, signature) ==
  IF signature.msg = message THEN signature.signer ELSE StrayAddress

VARIABLES
  voters,         \* table voters: email -> row
  elections,      \* table elections: id (1..Len) -> row
  vote_logs,      \* table vote_logs, in insertion order
  voter_receipts, \* table voter_receipts, in insertion order
  nextNonce,      \* the next value uuidv4() returns
  nextTx,         \* the next transaction hash the ledger client returns
  tokens,         \* the bearer tokens issued so far (payloads)
  ledgerVotes,    \* ledger client: the castVoteOnChain calls that returned a
                  \* transaction hash, in order
  issued,         \* history: <<email, nonce>> of every challenge issued
  authenticated,  \* history: <<email, nonce>> of every challenge that authenticated
  castBy,         \* history: vote_logs row -> email of the token that cast it
  req,            \* the request handled by the last step
  resp,           \* the response it got
  effects,        \* the ledger client calls of the last step and the log
                  \* lines of castVote and of the whitelisting of
                  \* voterAuthenticate, in order
  inflight,       \* the requests suspended at an await while another
                  \* request runs: what each has read so far
  whitelisted     \* the ledger's whitelist: the wallets a whitelisting
                  \* call added or found there

vars == <<voters, elections, vote_logs, voter_receipts, nextNonce, nextTx, tokens,
          ledgerVotes, issued, authenticated, castBy, req, resp, effects, inflight,
          whitelisted>>

\* the requests the server handles at the same time
Requests == {1, 2}
\* a request that is not suspended
Idle == [pc |-> "idle"]

identityVars == <<voters, nextNonce, tokens, issued, authenticated>>
electionVars == <<elections>>
voteVars == <<vote_logs, voter_receipts, nextTx, ledgerVotes, castBy>>

(***************************************************************************)
(* The catalogue: rows of elections, posts and candidates                  *)
(***************************************************************************)
\* process.env.ELECTION_SYSTEM_CONTRACT_ADDRESS
SystemContractAddress == "0xC0"

NoResults == "null"
NoCandidate == 0

\* posts and candidates, rows seeded with the elections: post 1 in election 1
\* with candidates 1 and 2, post 2 in election 2 with candidate 3
Posts == {1, 2}
Candidates == {1, 2, 3}

getPostById(id) ==
  IF id \in Posts THEN [id |-> id, election_id |-> id] ELSE [id |-> NoCandidate]

\* the candidates.blockchain_candidate_id column: the identifier the ledger
\* knows the candidate by
NoBlockchainId == ""
BlockchainCandidateIds == <<"0xc1", "0xc2", "0xc3">>

getCandidateById(id) ==
  IF id \in Candidates
  THEN [id |-> id, post_id |-> IF id = 3 THEN 2 ELSE 1,
        election_id |-> IF id = 3 THEN 2 ELSE 1,
        blockchain_candidate_id |-> BlockchainCandidateIds[id]]
  ELSE [id |-> NoCandidate]

\* the candidate ids of an election, in the order of the SELECT
getCandidatesByElectionId(electionId) ==
  IF electionId = 1 THEN <<1, 2>> ELSE IF electionId = 2 THEN <<3>> ELSE <<>>

ElectionRow(status, contract) ==
  [status |-> status, blockchain_contract_address |-> contract,
   results |-> NoResults, winning_candidate_id |-> NoCandidate]

(***************************************************************************)
(* mysqlService: the voters table                                          *)
(***************************************************************************)
getVoterByEmail(email) ==
  IF email \in DOMAIN voters THEN voters[email] ELSE [id |-> Missing]

\* UNIQUE (wallet_address): the row of another voter already holds the value
DuplicateWallet(voterId, walletAddress) ==
  \E other \in DOMAIN voters :
    other # voterId /\ voters[other].wallet_address = walletAddress

\* the variant of updateVoterStatusAndWallet that leaves auth_nonce as it is
updateVoterStatusAndWallet_keepsNonce(voterId, walletAddress, status, authNonce) ==
  [voters EXCEPT ![voterId].wallet_address = toLowerCase(walletAddress),
                 ![voterId].registration_status = status]

updateVoterStatusAndWallet(voterId, walletAddress, status, authNonce) ==
  [voters EXCEPT ![voterId].wallet_address = toLowerCase(walletAddress),
                 ![voterId].registration_status = status,
                 ![voterId].auth_nonce = authNonce]

\* the five-argument call of the whitelisting revision: the same UPDATE, with
\* is_eligible_on_chain as well
updateVoterStatusWalletAndEligibility(voterId, walletAddress, status, authNonce, isEligibleOnChain) ==
  [updateVoterStatusAndWallet(voterId, walletAddress, status, authNonce)
     EXCEPT ![voterId].is_eligible_on_chain = isEligibleOnChain]

updateVoterAuthNonce(voterId, nonce) ==
  [voters EXCEPT ![voterId].auth_nonce = nonce]

\* updateVoter(id, {wallet_address, registration_status})
updateVoter(voterId, walletAddress, status) ==
  [voters EXCEPT ![voterId].wallet_address = walletAddress,
                 ![voterId].registration_status = status]

getElectionById(id) ==
  IF id \in DOMAIN elections THEN elections[id] ELSE [status |-> Missing]

(***************************************************************************)
(* Requests and responses                                                  *)
(***************************************************************************)
NoMessage == <<"", 0>>
NoSignature == Sign(NoAddress, NoMessage)

AuthRequest(op, email, walletAddress, message, signature) ==
  [op |-> op, email |-> email, walletAddress |-> walletAddress,
   message |-> message, signature |-> signature]

Response(status, error) == [status |-> status, error |-> error]

\* a signer that puts the claimed address into the token as it was sent
VoterToken_asClaimed(voter, walletAddress) ==
  [email |-> voter.id, walletAddress |-> walletAddress, role |-> "voter"]

\* the payload voterAuthenticate signs into the token
VoterToken(voter, walletAddress) ==
  [email |-> voter.id, walletAddress |-> toLowerCase(walletAddress), role |-> "voter"]

\* the 200 response of requestVoterAuthMessage: the message to sign, built
\* from the nonce just stored
ChallengeResponse(nonce) ==
  [status |-> 200, error |-> "", messageToSign |-> MessageFor(nonce)]

\* the 200 response of voterAuthenticate: the token and the user's wallet
AuthResponse(voter, walletAddress) ==
  [status |-> 200, error |-> "", token |-> VoterToken(voter, walletAddress),
   walletAddress |-> toLowerCase(walletAddress)]

\* the voters of the seed script, not yet linked to a wallet, and two
\* pending elections with their posts and candidates
Init ==
  /\ voters = [e \in Voters |->
       [id |-> e, wallet_address |-> NoWallet, auth_nonce |-> NoNonce,
        registration_status |-> "pending_email_verification",
        is_eligible_on_chain |-> FALSE]]
  /\ elections = <<ElectionRow("pending", SystemContractAddress),
                    ElectionRow("pending", SystemContractAddress)>>
  /\ vote_logs = <<>>
  /\ voter_receipts = <<>>
  /\ nextNonce = 1
  /\ nextTx = 1
  /\ tokens = {}
  /\ ledgerVotes = <<>>
  /\ issued = {}
  /\ authenticated = {}
  /\ castBy = <<>>
  /\ req = [op |-> "none"]
  /\ resp = Response(0, "")
  /\ effects = <<>>
  /\ inflight = [r \in Requests |-> Idle]
  /\ whitelisted = {}

(***************************************************************************)
(* authController.requestVoterAuthMessage                                  *)
(***************************************************************************)
requestVoterAuthMessage(email) ==
  /\ UNCHANGED inflight
  /\ UNCHANGED whitelisted
  /\ req' = [op |-> "requestVoterAuthMessage", email |-> email]
  /\ effects' = <<>>
  /\ UNCHANGED <<electionVars, voteVars>>
  /\ IF email = Missing
     THEN /\ resp' = Response(400, "Email is required")
          /\ UNCHANGED identityVars
     ELSE LET voter == getVoterByEmail(email) IN
       IF voter.id = Missing
       THEN /\ resp' = Response(404, "Voter profile not found")
            /\ UNCHANGED identityVars
       ELSE /\ nextNonce <= MaxNonce
            /\ voters' = updateVoterAuthNonce(voter.id, nextNonce)
            /\ nextNonce' = nextNonce + 1
            /\ issued' = issued \cup {<<email, nextNonce>>}
            /\ resp' = ChallengeResponse(nextNonce)
            /\ UNCHANGED <<tokens, authenticated>>

(***************************************************************************)
(* authController.voterAuthenticate, the revision of authController.ts     *)
(***************************************************************************)
\* the variant of the checks that accepts the message of any challenge
AuthChecks_anyChallenge(voter, message, signature, walletAddress) ==
  LET recoveredAddress == verifyWalletSignature(message, signature)
  IN IF voter.auth_nonce = NoNonce \/ message[1] # VOTER_AUTH_MESSAGE_PREFIX
     THEN Response(400, "Invalid or outdated authentication message")
     ELSE IF recoveredAddress = NoAddress
             \/ toLowerCase(recoveredAddress) # toLowerCase(walletAddress)
     THEN Response(401, "Signature verification failed")
     ELSE Response(0, "")

\* the variant of the checks that recovers the signer first
AuthChecks_signatureFirst(voter, message, signature, walletAddress) ==
  LET expectedNonce == voter.auth_nonce
      recoveredAddress == verifyWalletSignature(message, signature)
  IN IF recoveredAddress = NoAddress
        \/ toLowerCase(recoveredAddress) # toLowerCase(walletAddress)
     THEN Response(401, "Signature verification failed")
     ELSE IF expectedNonce = NoNonce \/ message # MessageFor(expectedNonce)
     THEN Response(400, "Invalid or outdated authentication message")
     ELSE Response(0, "")

\* the variant of the checks that does not compare the recovered address
AuthChecks_anySigner(voter, message, signature, walletAddress) ==
  LET expectedNonce == voter.auth_nonce
  IN IF expectedNonce = NoNonce \/ message # MessageFor(expectedNonce)
     THEN Response(400, "Invalid or outdated authentication message")
     ELSE Response(0, "")

\* lines 98-107: the challenge check, then the signature check; the response
\* of the check that fails, or 0 when both pass
AuthChecks(voter, message, signature, walletAddress) ==
  LET expectedNonce == voter.auth_nonce
      recoveredAddress == verifyWalletSignature(message, signature)
  IN IF expectedNonce = NoNonce \/ message # MessageFor(expectedNonce)
     THEN Response(400, "Invalid or outdated authentication message")
     ELSE IF recoveredAddress = NoAddress
             \/ toLowerCase(recoveredAddress) # toLowerCase(walletAddress)
     THEN Response(401, "Signature verification failed")
     ELSE Response(0, "")

\* line 110: the wallet is not yet linked, or another one is claimed
WalletChanges(voter, walletAddress) ==
  \/ voter.wallet_address = NoWallet
  \/ toLowerCase(voter.wallet_address) # toLowerCase(walletAddress)

\* the variant that clears the nonce when the challenge or the signature
\* check fails
voterAuthenticate_clearsOnFailure(message, signature, walletAddress, email) ==
  /\ UNCHANGED inflight
  /\ UNCHANGED whitelisted
  /\ req' = AuthRequest("voterAuthenticate", email, walletAddress, message, signature)
  /\ effects' = <<>>
  /\ UNCHANGED <<electionVars, voteVars>>
  /\ IF message = NoMessage \/ signature = NoSignature
        \/ walletAddress = Missing \/ email = Missing
     THEN /\ resp' = Response(400, "Message, signature, wallet address, and email are required")
          /\ UNCHANGED identityVars
     ELSE LET voter == getVoterByEmail(email) IN
       IF voter.id = Missing
       THEN /\ resp' = Response(404, "Voter profile not found")
            /\ UNCHANGED identityVars
       ELSE IF AuthChecks(voter, message, signature, walletAddress).status # 0
       THEN /\ resp' = AuthChecks(voter, message, signature, walletAddress)
            /\ voters' = updateVoterAuthNonce(voter.id, NoNonce)
            /\ UNCHANGED <<nextNonce, tokens, issued, authenticated>>
       ELSE IF WalletChanges(voter, walletAddress)
               /\ DuplicateWallet(voter.id, toLowerCase(walletAddress))
       THEN /\ resp' = Response(500, "Failed to authenticate voter")
            /\ UNCHANGED identityVars
       ELSE /\ voters' =
                 IF WalletChanges(voter, walletAddress)
                 THEN updateVoterStatusAndWallet(voter.id, toLowerCase(walletAddress),
                                                 "wallet_linked", NoNonce)
                 ELSE updateVoterAuthNonce(voter.id, NoNonce)
            /\ tokens' = tokens \cup {VoterToken(voter, walletAddress)}
            /\ authenticated' = authenticated \cup {<<email, voter.auth_nonce>>}
            /\ resp' = AuthResponse(voter, walletAddress)
            /\ UNCHANGED <<nextNonce, issued>>

voterAuthenticate(message, signature, walletAddress, email) ==
  /\ UNCHANGED inflight
  /\ UNCHANGED whitelisted
  /\ req' = AuthRequest("voterAuthenticate", email, walletAddress, message, signature)
  /\ effects' = <<>>
  /\ UNCHANGED <<electionVars, voteVars>>
  /\ IF message = NoMessage \/ signature = NoSignature
        \/ walletAddress = Missing \/ email = Missing
     THEN /\ resp' = Response(400, "Message, signature, wallet address, and email are required")
          /\ UNCHANGED identityVars
     ELSE LET voter == getVoterByEmail(email) IN
       IF voter.id = Missing
       THEN /\ resp' = Response(404, "Voter profile not found")
            /\ UNCHANGED identityVars
       ELSE IF AuthChecks(voter, message, signature, walletAddress).status # 0
       THEN /\ resp' = AuthChecks(voter, message, signature, walletAddress)
            /\ UNCHANGED identityVars
       ELSE IF WalletChanges(voter, walletAddress)
               /\ DuplicateWallet(voter.id, toLowerCase(walletAddress))
       THEN \* the UPDATE violates UNIQUE (wallet_address) and throws: the
            \* catch block answers 500
            /\ resp' = Response(500, "Failed to authenticate voter")
            /\ UNCHANGED identityVars
       ELSE /\ voters' =
                 IF WalletChanges(voter, walletAddress)
                 THEN updateVoterStatusAndWallet(voter.id, toLowerCase(walletAddress),
                                                 "wallet_linked", NoNonce)
                 ELSE updateVoterAuthNonce(voter.id, NoNonce)
            /\ tokens' = tokens \cup {VoterToken(voter, walletAddress)}
            /\ authenticated' = authenticated \cup {<<email, voter.auth_nonce>>}
            /\ resp' = AuthResponse(voter, walletAddress)
            /\ UNCHANGED <<nextNonce, issued>>

(***************************************************************************)
(* voterAuthenticate of authController.ts while other requests run: the    *)
(* handler is suspended at the await of its UPDATE, after it has read the  *)
(* voter row and checked the challenge and the signature.                  *)
(***************************************************************************)
\* what a voterAuthenticate request holds once its checks have passed: the
\* voter row as it read it, and its body
VerifiedAuth(voter, message, signature, walletAddress, email) ==
  [pc |-> "verified", voter |-> voter, message |-> message,
   signature |-> signature, walletAddress |-> walletAddress, email |-> email]

\* lines 84-107: request r reads the voter row and checks the challenge and
\* the signature; it answers when a check fails
voterAuthenticate_checks(r, message, signature, walletAddress, email) ==
  /\ inflight[r].pc = "idle"
  /\ UNCHANGED whitelisted
  /\ req' = AuthRequest("voterAuthenticate", email, walletAddress, message, signature)
  /\ effects' = <<>>
  /\ UNCHANGED <<identityVars, electionVars, voteVars>>
  /\ IF message = NoMessage \/ signature = NoSignature
        \/ walletAddress = Missing \/ email = Missing
     THEN /\ resp' = Response(400, "Message, signature, wallet address, and email are required")
          /\ UNCHANGED inflight
     ELSE LET voter == getVoterByEmail(email) IN
       IF voter.id = Missing
       THEN /\ resp' = Response(404, "Voter profile not found")
            /\ UNCHANGED inflight
       ELSE IF AuthChecks(voter, message, signature, walletAddress).status # 0
       THEN /\ resp' = AuthChecks(voter, message, signature, walletAddress)
            /\ UNCHANGED inflight
       ELSE /\ resp' = Response(0, "")
            /\ inflight' = [inflight EXCEPT
                 ![r] = VerifiedAuth(voter, message, signature, walletAddress, email)]

\* lines 109-136: request r, whose checks passed, runs its UPDATE with the
\* voter row it read before, signs the token and answers
voterAuthenticate_updates(r) ==
  LET voter == inflight[r].voter
      walletAddress == inflight[r].walletAddress
  IN
  /\ inflight[r].pc = "verified"
  /\ UNCHANGED whitelisted
  /\ req' = AuthRequest("voterAuthenticate", inflight[r].email, walletAddress,
                        inflight[r].message, inflight[r].signature)
  /\ effects' = <<>>
  /\ UNCHANGED <<electionVars, voteVars>>
  /\ inflight' = [inflight EXCEPT ![r] = Idle]
  /\ IF WalletChanges(voter, walletAddress)
        /\ DuplicateWallet(voter.id, toLowerCase(walletAddress))
     THEN /\ resp' = Response(500, "Failed to authenticate voter")
          /\ UNCHANGED identityVars
     ELSE /\ voters' =
               IF WalletChanges(voter, walletAddress)
               THEN updateVoterStatusAndWallet(voter.id, toLowerCase(walletAddress),
                                               "wallet_linked", NoNonce)
               ELSE updateVoterAuthNonce(voter.id, NoNonce)
          /\ tokens' = tokens \cup {VoterToken(voter, walletAddress)}
          /\ authenticated' = authenticated \cup {<<inflight[r].email, voter.auth_nonce>>}
          /\ resp' = AuthResponse(voter, walletAddress)
          /\ UNCHANGED <<nextNonce, issued>>

(***************************************************************************)
(* authController.voterAuthenticate, the revision with automated global    *)
(* whitelisting.  whitelistOutcome is what globalWhitelistVoterOnChain     *)
(* does when called: it returns a transaction hash ("hash"), throws an      *)
(* error that names AlreadyGloballyWhitelisted ("alreadyWhitelisted") or   *)
(* throws another error ("error").                                         *)
(***************************************************************************)
\* line 118: whether the whitelisting call is attempted
AttemptsWhitelisting(voter, walletAddress) ==
  \/ ~voter.is_eligible_on_chain
  \/ (voter.wallet_address # NoWallet
      /\ toLowerCase(voter.wallet_address) # toLowerCase(walletAddress))

\* lines 120-134: the call and the line the try / catch around it logs
WhitelistingLog(whitelistOutcome) ==
  CASE whitelistOutcome = "hash" -> <<"globalWhitelistVoterOnChain">>
    [] whitelistOutcome = "alreadyWhitelisted" ->
         <<"globalWhitelistVoterOnChain", "already globally whitelisted">>
    [] OTHER ->
         <<"globalWhitelistVoterOnChain", "Error during automated whitelisting">>

\* the variant of the catch that throws on what is not AlreadyGloballyWhitelisted
whitelistErrorPropagates_rethrows(whitelistOutcome) == whitelistOutcome = "error"

\* lines 126-134: the catch around the whitelisting call ends every error of
\* the call, none reaches the catch of the handler
whitelistErrorPropagates(whitelistOutcome) == FALSE

\* lines 86-118: the request reaches the whitelisting call
ReachesWhitelisting(message, signature, walletAddress, email) ==
  /\ message # NoMessage /\ signature # NoSignature
  /\ walletAddress # Missing /\ email # Missing
  /\ getVoterByEmail(email).id # Missing
  /\ AuthChecks(getVoterByEmail(email), message, signature, walletAddress).status = 0
  /\ AttemptsWhitelisting(getVoterByEmail(email), walletAddress)

\* the ledger's whitelist after globalWhitelistVoterOnChain(walletAddress):
\* the wallet is on it when the call returned a transaction hash or the
\* contract answered AlreadyGloballyWhitelisted
globalWhitelistVoterOnChain(walletAddress, whitelistOutcome) ==
  IF whitelistOutcome \in {"hash", "alreadyWhitelisted"}
  THEN whitelisted \cup {walletAddress}
  ELSE whitelisted

voterAuthenticate_whitelisting(message, signature, walletAddress, email, whitelistOutcome) ==
  /\ UNCHANGED inflight
  /\ req' = AuthRequest("voterAuthenticate", email, walletAddress, message, signature)
  /\ UNCHANGED <<electionVars, voteVars>>
  /\ effects' = IF ReachesWhitelisting(message, signature, walletAddress, email)
                THEN WhitelistingLog(whitelistOutcome)
                ELSE <<>>
  /\ whitelisted' = IF ReachesWhitelisting(message, signature, walletAddress, email)
                    THEN globalWhitelistVoterOnChain(toLowerCase(walletAddress),
                                                     whitelistOutcome)
                    ELSE whitelisted
  /\ IF message = NoMessage \/ signature = NoSignature
        \/ walletAddress = Missing \/ email = Missing
     THEN /\ resp' = Response(400, "Message, signature, wallet address, and email are required")
          /\ UNCHANGED identityVars
     ELSE LET voter == getVoterByEmail(email) IN
       IF voter.id = Missing
       THEN /\ resp' = Response(404, "Voter profile not found")
            /\ UNCHANGED identityVars
       ELSE IF AuthChecks(voter, message, signature, walletAddress).status # 0
       THEN /\ resp' = AuthChecks(voter, message, signature, walletAddress)
            /\ UNCHANGED identityVars
       ELSE
         LET attempted == AttemptsWhitelisting(voter, walletAddress)
             whitelistTxHash == attempted /\ whitelistOutcome = "hash"
             isEligibleOnChain == whitelistTxHash \/ voter.is_eligible_on_chain
             newRegistrationStatus ==
               IF isEligibleOnChain THEN "eligible_on_chain" ELSE "wallet_linked"
         IN
         IF \/ attempted /\ whitelistErrorPropagates(whitelistOutcome)
            \/ DuplicateWallet(voter.id, toLowerCase(walletAddress))
         THEN /\ resp' = Response(500, "Failed to authenticate voter")
              /\ UNCHANGED identityVars
         ELSE /\ voters' = updateVoterStatusWalletAndEligibility(
                              voter.id, toLowerCase(walletAddress),
                              newRegistrationStatus, NoNonce, isEligibleOnChain)
              /\ tokens' = tokens \cup {VoterToken(voter, walletAddress)}
              /\ authenticated' = authenticated \cup {<<email, voter.auth_nonce>>}
              /\ resp' = AuthResponse(voter, walletAddress)
              /\ UNCHANGED <<nextNonce, issued>>

(***************************************************************************)
(* adminController.whitelistVoter.  ledgerOutcome is what                  *)
(* whitelistVoterOnChain does: "hash", or it throws ("error").             *)
(***************************************************************************)
\* the ledger's whitelist after whitelistVoterOnChain(walletAddress) for an
\* election: the wallet is on it when the call returned a transaction hash
whitelistVoterOnChain(walletAddress, ledgerOutcome) ==
  IF ledgerOutcome = "hash" THEN whitelisted \cup {walletAddress} ELSE whitelisted

whitelistVoter(electionId, voterWalletAddress, email, ledgerOutcome) ==
  /\ UNCHANGED inflight
  /\ req' = [op |-> "whitelistVoter", electionId |-> electionId,
             walletAddress |-> voterWalletAddress, email |-> email]
  /\ UNCHANGED <<electionVars, voteVars>>
  /\ IF voterWalletAddress = Missing
     THEN /\ resp' = Response(400, "Voter wallet address is required")
          /\ effects' = <<>>
          /\ UNCHANGED <<identityVars, whitelisted>>
     ELSE LET election == getElectionById(electionId)
              voter == getVoterByEmail(email)
          IN
       IF election.status = Missing
       THEN /\ resp' = Response(404, "Election not found")
            /\ effects' = <<>>
            /\ UNCHANGED <<identityVars, whitelisted>>
       ELSE IF election.blockchain_contract_address = NoAddress
       THEN /\ resp' = Response(400, "Election has no deployed smart contract address")
            /\ effects' = <<>>
            /\ UNCHANGED <<identityVars, whitelisted>>
       ELSE IF voter.id # Missing
               /\ DuplicateWallet(voter.id, toLowerCase(voterWalletAddress))
       THEN /\ resp' = Response(500, "Failed to whitelist voter")
            /\ effects' = <<>>
            /\ UNCHANGED <<identityVars, whitelisted>>
       ELSE /\ voters' = IF voter.id # Missing
                         THEN updateVoter(voter.id, toLowerCase(voterWalletAddress),
                                          "eligible_on_chain")
                         ELSE voters
            /\ effects' = <<"whitelistVoterOnChain">>
            /\ whitelisted' = whitelistVoterOnChain(toLowerCase(voterWalletAddress),
                                                    ledgerOutcome)
            /\ resp' = IF ledgerOutcome = "hash"
                       THEN Response(200, "")
                       ELSE Response(500, "Failed to whitelist voter")
            /\ UNCHANGED <<nextNonce, tokens, issued, authenticated>>

(***************************************************************************)
(* mysqlService: elections, vote_logs, voter_receipts                      *)
(***************************************************************************)
\* createElection: the INSERT names title, description, the dates and the
\* status; blockchain_contract_address is not among its columns
createElection_mysql ==
  Append(elections, ElectionRow("pending", NoAddress))

updateElection(id, status) ==
  [elections EXCEPT ![id].status = status]

updateElectionResults(id, status, results, winningCandidateId) ==
  [elections EXCEPT ![id].status = status,
                    ![id].results = results,
                    ![id].winning_candidate_id = winningCandidateId]

VoteRow(electionId, postId, candidateId, walletAddress, transactionHash) ==
  [election_id |-> electionId, post_id |-> postId, candidate_id |-> candidateId,
   voter_wallet_address |-> toLowerCase(walletAddress),
   transaction_hash |-> transactionHash]

createVoteLog(electionId, postId, candidateId, walletAddress, transactionHash) ==
  Append(vote_logs, VoteRow(electionId, postId, candidateId, walletAddress, transactionHash))

createVoterReceipt(electionId, postId, candidateId, walletAddress, transactionHash) ==
  Append(voter_receipts,
         VoteRow(electionId, postId, candidateId, walletAddress, transactionHash))

\* whether vote_logs holds a row of the wallet for the post of the election
hasVoterVotedForPostInDB(electionId, postId, walletAddress) ==
  \E i \in DOMAIN vote_logs :
    /\ vote_logs[i].election_id = electionId
    /\ vote_logs[i].post_id = postId
    /\ vote_logs[i].voter_wallet_address = toLowerCase(walletAddress)

(***************************************************************************)
(* adminController: the election lifecycle.  ledgerOutcome is what the     *)
(* ledger client does: it returns a transaction hash ("hash") or throws    *)
(* ("error").                                                              *)
(***************************************************************************)
createElection(fields, ledgerOutcome) ==
  /\ UNCHANGED inflight
  /\ UNCHANGED whitelisted
  /\ req' = [op |-> "createElection", fields |-> fields]
  /\ UNCHANGED <<identityVars, voteVars>>
  /\ IF fields = Missing
     THEN /\ resp' = Response(400, "Missing required election fields")
          /\ effects' = <<>>
          /\ UNCHANGED elections
     ELSE /\ Len(elections) < MaxElections
          /\ elections' = createElection_mysql
          /\ effects' = <<"createElectionOnChain">>
          /\ resp' = IF ledgerOutcome = "hash"
                     THEN Response(201, "")
                     ELSE Response(500, "Failed to create election")

\* the body of PUT /elections/:electionId/status: results and
\* winningCandidateId are present (a candidate id) or absent (NoCandidate)
updateElectionStatus(electionId, status, winningCandidateId) ==
  /\ UNCHANGED inflight
  /\ UNCHANGED whitelisted
  /\ req' = [op |-> "updateElectionStatus", electionId |-> electionId,
             status |-> status, winningCandidateId |-> winningCandidateId]
  /\ effects' = <<>>
  /\ UNCHANGED <<identityVars, voteVars>>
  /\ IF status = Missing
     THEN /\ resp' = Response(400, "Status is required")
          /\ UNCHANGED elections
     ELSE IF status \notin {"pending", "active", "ended"}
     THEN /\ resp' = Response(400, "Invalid election status")
          /\ UNCHANGED elections
     ELSE IF getElectionById(electionId).status = Missing
     THEN /\ resp' = Response(404, "Election not found")
          /\ UNCHANGED elections
     ELSE IF status = "ended" /\ winningCandidateId = NoCandidate
     THEN \* undefined among the bind parameters: the UPDATE throws
          /\ resp' = Response(500, "Failed to update election status")
          /\ UNCHANGED elections
     ELSE /\ elections' =
               IF status = "ended"
               THEN updateElectionResults(electionId, status, "body", winningCandidateId)
               ELSE updateElection(electionId, status)
          /\ resp' = Response(200, "")

\* the variant that writes the new status before it calls the ledger
startElection_updateFirst(id, ledgerOutcome) ==
  /\ UNCHANGED inflight
  /\ UNCHANGED whitelisted
  /\ req' = [op |-> "startElection", electionId |-> id]
  /\ UNCHANGED <<identityVars, voteVars>>
  /\ LET election == getElectionById(id) IN
     IF election.status = Missing
     THEN /\ resp' = Response(404, "Election not found")
          /\ effects' = <<>>
          /\ UNCHANGED elections
     ELSE IF election.status # "pending"
     THEN /\ resp' = Response(400, "Election is already started. Cannot start")
          /\ effects' = <<>>
          /\ UNCHANGED elections
     ELSE /\ elections' = updateElection(id, "active")
          /\ effects' = <<"startElectionOnChain">>
          /\ resp' = IF ledgerOutcome # "hash"
                     THEN Response(500, "Failed to start election")
                     ELSE Response(200, "")

startElection(id, ledgerOutcome) ==
  /\ UNCHANGED inflight
  /\ UNCHANGED whitelisted
  /\ req' = [op |-> "startElection", electionId |-> id]
  /\ UNCHANGED <<identityVars, voteVars>>
  /\ LET election == getElectionById(id) IN
     IF election.status = Missing
     THEN /\ resp' = Response(404, "Election not found")
          /\ effects' = <<>>
          /\ UNCHANGED elections
     ELSE IF election.status # "pending"
     THEN /\ resp' = Response(400, "Election is already started. Cannot start")
          /\ effects' = <<>>
          /\ UNCHANGED elections
     ELSE IF ledgerOutcome # "hash"
     THEN \* startElectionOnChain throws
          /\ resp' = Response(500, "Failed to start election")
          /\ effects' = <<"startElectionOnChain">>
          /\ UNCHANGED elections
     ELSE /\ elections' = updateElection(id, "active")
          /\ effects' = <<"startElectionOnChain">>
          /\ resp' = Response(200, "")

\* the variant of the loop that lets a later candidate with an equal tally
\* replace the earlier one
RECURSIVE determineWinner_lastSeen(_, _, _, _)
determineWinner_lastSeen(blockchainCandidateIds, results, maxVotes, winner) ==
  IF blockchainCandidateIds = <<>> THEN winner
  ELSE LET bcId == Head(blockchainCandidateIds) IN
       IF bcId \in DOMAIN results /\ results[bcId] >= maxVotes
       THEN determineWinner_lastSeen(Tail(blockchainCandidateIds), results,
                                     results[bcId], bcId)
       ELSE determineWinner_lastSeen(Tail(blockchainCandidateIds), results,
                                     maxVotes, winner)

\* lines 167-176: the ledger id of the first candidate, in order, with the
\* most votes; a candidate the results do not name compares as not greater
RECURSIVE determineWinner(_, _, _, _)
determineWinner(blockchainCandidateIds, results, maxVotes, winner) ==
  IF blockchainCandidateIds = <<>> THEN winner
  ELSE LET bcId == Head(blockchainCandidateIds) IN
       IF bcId \in DOMAIN results /\ results[bcId] > maxVotes
       THEN determineWinner(Tail(blockchainCandidateIds), results, results[bcId], bcId)
       ELSE determineWinner(Tail(blockchainCandidateIds), results, maxVotes, winner)

\* lines 178-183: the id of the candidate row with the winning ledger id
winnerCandidate(candidates, winnerBlockchainId) ==
  IF \E i \in DOMAIN candidates :
       getCandidateById(candidates[i]).blockchain_candidate_id = winnerBlockchainId
  THEN candidates[CHOOSE i \in DOMAIN candidates :
         /\ getCandidateById(candidates[i]).blockchain_candidate_id = winnerBlockchainId
         /\ \A j \in 1..(i - 1) :
              getCandidateById(candidates[j]).blockchain_candidate_id
                # winnerBlockchainId]
  ELSE NoCandidate

\* JSON.stringify of the results object: the text stored in elections.results
JSON_stringify(results) == ToString(results)

\* finalResults is what getFinalResultsFromChain returns: a count for every
\* candidate asked for, or the empty object after a read error
endElection(id, ledgerOutcome, finalResults) ==
  /\ UNCHANGED inflight
  /\ UNCHANGED whitelisted
  /\ req' = [op |-> "endElection", electionId |-> id]
  /\ UNCHANGED <<identityVars, voteVars>>
  /\ LET election == getElectionById(id)
         candidates == getCandidatesByElectionId(id)
         blockchainCandidateIds ==
           [i \in DOMAIN candidates |->
              getCandidateById(candidates[i]).blockchain_candidate_id]
         winnerBlockchainId ==
           determineWinner(blockchainCandidateIds, finalResults, -1, NoBlockchainId)
         winningCandidateId == winnerCandidate(candidates, winnerBlockchainId)
     IN
     IF election.status = Missing
     THEN /\ resp' = Response(404, "Election not found")
          /\ effects' = <<>>
          /\ UNCHANGED elections
     ELSE IF election.status # "active"
     THEN /\ resp' = Response(400, "Election is not active")
          /\ effects' = <<>>
          /\ UNCHANGED elections
     ELSE IF ledgerOutcome # "hash"
     THEN \* endElectionOnChain throws
          /\ resp' = Response(500, "Failed to end election")
          /\ effects' = <<"endElectionOnChain">>
          /\ UNCHANGED elections
     ELSE IF winningCandidateId = NoCandidate
     THEN \* winning_candidate_id is undefined among the bind parameters and
          \* the UPDATE throws
          /\ resp' = Response(500, "Failed to end election")
          /\ effects' = <<"endElectionOnChain", "getFinalResultsFromChain">>
          /\ UNCHANGED elections
     ELSE /\ elections' = updateElectionResults(id, "ended",
                                                JSON_stringify(finalResults),
                                                winningCandidateId)
          /\ effects' = <<"endElectionOnChain", "getFinalResultsFromChain">>
          /\ resp' = [status |-> 200, error |-> "", results |-> finalResults]

(***************************************************************************)
(* voterRoutes.authenticateVoter and the castVote handlers                 *)
(***************************************************************************)
NoToken == [email |-> Missing, walletAddress |-> NoWallet, role |-> "none"]
\* a token the server did not sign
ForgedToken == [email |-> UnknownEmail, walletAddress |-> toLowerCase(WalletA),
                role |-> "voter"]

\* authService.verifyToken: the payload of a token the server signed
verifyToken(token) == token \in tokens

\* the variant of the middleware that looks at neither the role nor the
\* wallet address of the token
authenticateVoter_anyRole(token) ==
  IF token = NoToken
  THEN Response(401, "Authentication token required")
  ELSE IF ~verifyToken(token)
  THEN Response(403, "Invalid or expired token")
  ELSE Response(0, "")

\* the response of the middleware when it stops the request, status 0 when
\* it calls next()
authenticateVoter(token) ==
  IF token = NoToken
  THEN Response(401, "Authentication token required")
  ELSE IF ~verifyToken(token)
  THEN Response(403, "Invalid or expired token")
  ELSE IF token.role # "voter" \/ token.walletAddress = NoWallet
  THEN Response(403, "Access denied")
  ELSE Response(0, "")

VoteRequest(token, electionId, postId, candidateId) ==
  [op |-> "castVote", token |-> token, electionId |-> electionId,
   postId |-> postId, candidateId |-> candidateId]

\* the variant of the checks that does not look at the election's status
VoteChecks_anyStatus(electionId, postId, candidateId) ==
  IF getPostById(postId).id = NoCandidate
          \/ getPostById(postId).election_id # electionId
  THEN Response(400, "Invalid post ID for this election")
  ELSE IF getCandidateById(candidateId).id = NoCandidate
          \/ getCandidateById(candidateId).post_id # postId
  THEN Response(400, "Invalid candidate ID for this post")
  ELSE Response(0, "")

\* the variant of the checks that takes any post and any candidate
VoteChecks_anyCandidate(electionId, postId, candidateId) ==
  IF electionId = NoCandidate \/ postId = NoCandidate \/ candidateId = NoCandidate
  THEN Response(400, "Missing election ID, post ID, candidate ID, or voter wallet address")
  ELSE IF getElectionById(electionId).status # "active"
  THEN Response(400, "Election is not active or does not exist")
  ELSE Response(0, "")

\* the checks of the body, the election, the post and the candidate: the
\* response of the check that fails, status 0 when all pass
VoteChecks(electionId, postId, candidateId) ==
  IF electionId = NoCandidate \/ postId = NoCandidate \/ candidateId = NoCandidate
  THEN Response(400, "Missing election ID, post ID, candidate ID, or voter wallet address")
  ELSE IF getElectionById(electionId).status # "active"
  THEN Response(400, "Election is not active or does not exist")
  ELSE IF getPostById(postId).id = NoCandidate
          \/ getPostById(postId).election_id # electionId
  THEN Response(400, "Invalid post ID for this election")
  ELSE IF getCandidateById(candidateId).id = NoCandidate
          \/ getCandidateById(candidateId).post_id # postId
  THEN Response(400, "Invalid candidate ID for this post")
  ELSE Response(0, "")

\* the arguments of a castVoteOnChain call that returned transactionHash
LedgerVote(electionId, postId, blockchainCandidateId, walletAddress, transactionHash) ==
  [election_id |-> electionId, post_id |-> postId,
   blockchain_candidate_id |-> blockchainCandidateId,
   voter_wallet_address |-> walletAddress, transaction_hash |-> transactionHash]

\* the body of the 200 response
VoteResponse(electionId, postId, candidateId, voterWalletAddress, transactionHash) ==
  [status |-> 200, error |-> "", electionId |-> electionId, postId |-> postId,
   candidateId |-> candidateId, voterWalletAddress |-> voterWalletAddress,
   transactionHash |-> transactionHash]

\* whether the handler goes on after castVoteOnChain: the call returned a
\* transaction hash, it neither threw nor returned an empty value
LedgerReturned_any(ledgerOutcome) == TRUE

LedgerReturned(ledgerOutcome) == ledgerOutcome = "hash"

\* the variant that answers before the two INSERTs are known to have
\* succeeded
RecordVote_answersFirst(token, electionId, postId, candidateId, transactionHash, dbOutcome) ==
  /\ vote_logs' = IF dbOutcome = "logFails" THEN vote_logs
                  ELSE createVoteLog(electionId, postId, candidateId,
                                     token.walletAddress, transactionHash)
  /\ castBy' = IF dbOutcome = "logFails" THEN castBy
               ELSE Append(castBy, token.email)
  /\ voter_receipts' = IF dbOutcome = "ok"
                       THEN createVoterReceipt(electionId, postId, candidateId,
                                               token.walletAddress, transactionHash)
                       ELSE voter_receipts
  /\ resp' = VoteResponse(electionId, postId, candidateId,
                          token.walletAddress, transactionHash)

\* the variant that writes the receipt before the vote log
RecordVote_receiptFirst(token, electionId, postId, candidateId, transactionHash, dbOutcome) ==
  /\ voter_receipts' = IF dbOutcome = "receiptFails" THEN voter_receipts
                       ELSE createVoterReceipt(electionId, postId, candidateId,
                                               token.walletAddress, transactionHash)
  /\ vote_logs' = IF dbOutcome = "ok"
                  THEN createVoteLog(electionId, postId, candidateId,
                                     token.walletAddress, transactionHash)
                  ELSE vote_logs
  /\ castBy' = IF dbOutcome = "ok" THEN Append(castBy, token.email) ELSE castBy
  /\ resp' = IF dbOutcome = "ok"
             THEN VoteResponse(electionId, postId, candidateId,
                               token.walletAddress, transactionHash)
             ELSE Response(500, "Failed to cast vote")

\* the vote log and the receipt written after the ledger returned
\* transactionHash.  dbOutcome is what the two INSERTs do: both succeed
\* ("ok"), the first throws ("logFails"), or the second throws
\* ("receiptFails"); a throw is answered by the catch of the handler
RecordVote(token, electionId, postId, candidateId, transactionHash, dbOutcome) ==
  /\ vote_logs' = IF dbOutcome = "logFails" THEN vote_logs
                  ELSE createVoteLog(electionId, postId, candidateId,
                                     token.walletAddress, transactionHash)
  /\ castBy' = IF dbOutcome = "logFails" THEN castBy
               ELSE Append(castBy, token.email)
  /\ voter_receipts' = IF dbOutcome = "ok"
                       THEN createVoterReceipt(electionId, postId, candidateId,
                                               token.walletAddress, transactionHash)
                       ELSE voter_receipts
  /\ resp' = IF dbOutcome = "ok"
             THEN VoteResponse(electionId, postId, candidateId,
                               token.walletAddress, transactionHash)
             ELSE Response(500, "Failed to cast vote")

\* the variant that submits the vote a second time when the first call
\* gave no transaction hash
SubmitAndRecord_retry(token, electionId, postId, candidateId, ledgerOutcome, isTxValid, dbOutcome) ==
  /\ nextTx <= MaxTx
  /\ ledgerVotes' = Append(ledgerVotes,
                       LedgerVote(electionId, postId,
                         getCandidateById(candidateId).blockchain_candidate_id,
                         token.walletAddress, nextTx))
  /\ nextTx' = nextTx + 1
  /\ effects' = (IF ledgerOutcome = "hash" THEN <<>> ELSE <<"castVoteOnChain">>)
                  \o (IF isTxValid
                      THEN <<"castVoteOnChain", "verifyVoteTransaction">>
                      ELSE <<"castVoteOnChain", "verifyVoteTransaction", "CRITICAL">>)
  /\ RecordVote(token, electionId, postId, candidateId, nextTx, dbOutcome)

\* the variant that answers with an error, and writes no row, when
\* verifyVoteTransaction reports that the transaction does not verify
SubmitAndRecord_rejectsUnverified(token, electionId, postId, candidateId, ledgerOutcome, isTxValid, dbOutcome) ==
  IF ledgerOutcome # "hash"
  THEN /\ resp' = IF ledgerOutcome = "empty"
                  THEN Response(500, "Failed to record vote on blockchain")
                  ELSE Response(500, "Failed to cast vote")
       /\ effects' = IF ledgerOutcome = "empty"
                     THEN <<"castVoteOnChain">>
                     ELSE <<"castVoteOnChain", "Error casting vote">>
       /\ UNCHANGED voteVars
  ELSE /\ nextTx <= MaxTx
       /\ ledgerVotes' = Append(ledgerVotes,
                            LedgerVote(electionId, postId,
                              getCandidateById(candidateId).blockchain_candidate_id,
                              token.walletAddress, nextTx))
       /\ nextTx' = nextTx + 1
       /\ IF isTxValid
          THEN /\ effects' = <<"castVoteOnChain", "verifyVoteTransaction">>
                       \o (IF dbOutcome = "ok" THEN <<>> ELSE <<"Error casting vote">>)
               /\ RecordVote(token, electionId, postId, candidateId, nextTx, dbOutcome)
          ELSE /\ effects' = <<"castVoteOnChain", "verifyVoteTransaction", "CRITICAL">>
               /\ resp' = Response(500, "Vote transaction did not verify")
               /\ UNCHANGED <<vote_logs, voter_receipts, castBy>>

\* lines 107-159 of app.ts: blockchainService.castVoteOnChain returns a new
\* transaction hash ("hash"), returns nothing ("empty") or throws ("error");
\* after a hash, verifyVoteTransaction reports isTxValid, and the handler
\* writes the vote log and the receipt
SubmitAndRecord(token, electionId, postId, candidateId, ledgerOutcome, isTxValid, dbOutcome) ==
  IF ~LedgerReturned(ledgerOutcome)
  THEN /\ resp' = IF ledgerOutcome = "empty"
                  THEN Response(500, "Failed to record vote on blockchain")
                  ELSE Response(500, "Failed to cast vote")
       /\ effects' = IF ledgerOutcome = "empty"
                     THEN <<"castVoteOnChain">>
                     ELSE <<"castVoteOnChain", "Error casting vote">>
       /\ UNCHANGED voteVars
  ELSE /\ nextTx <= MaxTx
       /\ ledgerVotes' = IF ledgerOutcome = "hash"
                         THEN Append(ledgerVotes,
                                LedgerVote(electionId, postId,
                                  getCandidateById(candidateId).blockchain_candidate_id,
                                  token.walletAddress, nextTx))
                         ELSE ledgerVotes
       /\ nextTx' = nextTx + 1
       /\ effects' = <<"castVoteOnChain", "verifyVoteTransaction">>
                       \o (IF isTxValid THEN <<>> ELSE <<"CRITICAL">>)
                       \o (IF dbOutcome = "ok" THEN <<>> ELSE <<"Error casting vote">>)
       /\ RecordVote(token, electionId, postId, candidateId, nextTx, dbOutcome)

\* lines 89-132 of voterController.ts: the same without the verification
SubmitAndRecord_voterController(token, electionId, postId, candidateId, ledgerOutcome, dbOutcome) ==
  IF ~LedgerReturned(ledgerOutcome)
  THEN /\ resp' = IF ledgerOutcome = "empty"
                  THEN Response(500, "Failed to record vote on blockchain")
                  ELSE Response(500, "Failed to cast vote")
       /\ effects' = IF ledgerOutcome = "empty"
                     THEN <<"castVoteOnChain">>
                     ELSE <<"castVoteOnChain", "Error casting vote">>
       /\ UNCHANGED voteVars
  ELSE /\ nextTx <= MaxTx
       /\ ledgerVotes' = IF ledgerOutcome = "hash"
                         THEN Append(ledgerVotes,
                                LedgerVote(electionId, postId,
                                  getCandidateById(candidateId).blockchain_candidate_id,
                                  token.walletAddress, nextTx))
                         ELSE ledgerVotes
       /\ nextTx' = nextTx + 1
       /\ effects' = <<"castVoteOnChain">>
                       \o (IF dbOutcome = "ok" THEN <<>> ELSE <<"Error casting vote">>)
       /\ RecordVote(token, electionId, postId, candidateId, nextTx, dbOutcome)

\* the handler with the vote_logs check
castVote(token, electionId, postId, candidateId, ledgerOutcome, isTxValid, dbOutcome) ==
  /\ UNCHANGED inflight
  /\ UNCHANGED whitelisted
  /\ req' = VoteRequest(token, electionId, postId, candidateId)
  /\ UNCHANGED <<identityVars, electionVars>>
  /\ IF authenticateVoter(token).status # 0
     THEN /\ resp' = authenticateVoter(token)
          /\ effects' = <<>>
          /\ UNCHANGED voteVars
     ELSE IF VoteChecks(electionId, postId, candidateId).status # 0
     THEN /\ resp' = VoteChecks(electionId, postId, candidateId)
          /\ effects' = <<>>
          /\ UNCHANGED voteVars
     ELSE IF hasVoterVotedForPostInDB(electionId, postId, token.walletAddress)
     THEN /\ resp' = Response(403, "You have already voted for this post in this election")
          /\ effects' = <<>>
          /\ UNCHANGED voteVars
     ELSE SubmitAndRecord(token, electionId, postId, candidateId,
                          ledgerOutcome, isTxValid, dbOutcome)

\* the handler of controllers/voterController.ts: its check of an earlier
\* vote is commented out
castVote_voterController(token, electionId, postId, candidateId, ledgerOutcome, dbOutcome) ==
  /\ UNCHANGED inflight
  /\ UNCHANGED whitelisted
  /\ req' = VoteRequest(token, electionId, postId, candidateId)
  /\ UNCHANGED <<identityVars, electionVars>>
  /\ IF authenticateVoter(token).status # 0
     THEN /\ resp' = authenticateVoter(token)
          /\ effects' = <<>>
          /\ UNCHANGED voteVars
     ELSE IF VoteChecks(electionId, postId, candidateId).status # 0
     THEN /\ resp' = VoteChecks(electionId, postId, candidateId)
          /\ effects' = <<>>
          /\ UNCHANGED voteVars
     ELSE SubmitAndRecord_voterController(token, electionId, postId, candidateId,
                                          ledgerOutcome, dbOutcome)

(***************************************************************************)
(* castVote of app.ts while other requests run.  The handler is suspended  *)
(* at every await; the model lets another request run between the reads    *)
(* of lines 75-105 and the ledger call and the writes of lines 107-159.    *)
(***************************************************************************)
\* what a castVote request holds once its checks have passed
CheckedVote(token, electionId, postId, candidateId) ==
  [pc |-> "checked", token |-> token, electionId |-> electionId,
   postId |-> postId, candidateId |-> candidateId]

\* the variant of the reads that does not look into vote_logs
castVote_checks_noVoteLogCheck(r, token, electionId, postId, candidateId) ==
  /\ inflight[r].pc = "idle"
  /\ UNCHANGED whitelisted
  /\ req' = VoteRequest(token, electionId, postId, candidateId)
  /\ effects' = <<>>
  /\ UNCHANGED <<identityVars, electionVars, voteVars>>
  /\ IF authenticateVoter(token).status # 0
     THEN /\ resp' = authenticateVoter(token)
          /\ UNCHANGED inflight
     ELSE IF VoteChecks(electionId, postId, candidateId).status # 0
     THEN /\ resp' = VoteChecks(electionId, postId, candidateId)
          /\ UNCHANGED inflight
     ELSE /\ resp' = Response(0, "")
          /\ inflight' = [inflight EXCEPT
                            ![r] = CheckedVote(token, electionId, postId, candidateId)]

\* lines 66-105: request r reads the election, the post, the candidate and
\* vote_logs; it answers when a check fails and goes on to the ledger call
\* otherwise
castVote_checks(r, token, electionId, postId, candidateId) ==
  /\ inflight[r].pc = "idle"
  /\ UNCHANGED whitelisted
  /\ req' = VoteRequest(token, electionId, postId, candidateId)
  /\ effects' = <<>>
  /\ UNCHANGED <<identityVars, electionVars, voteVars>>
  /\ IF authenticateVoter(token).status # 0
     THEN /\ resp' = authenticateVoter(token)
          /\ UNCHANGED inflight
     ELSE IF VoteChecks(electionId, postId, candidateId).status # 0
     THEN /\ resp' = VoteChecks(electionId, postId, candidateId)
          /\ UNCHANGED inflight
     ELSE IF hasVoterVotedForPostInDB(electionId, postId, token.walletAddress)
     THEN /\ resp' = Response(403, "You have already voted for this post in this election")
          /\ UNCHANGED inflight
     ELSE /\ resp' = Response(0, "")
          /\ inflight' = [inflight EXCEPT
                            ![r] = CheckedVote(token, electionId, postId, candidateId)]

\* lines 107-159: request r, whose checks passed, calls the ledger and
\* writes the vote log and the receipt with what it read before
castVote_submits(r, ledgerOutcome, isTxValid, dbOutcome) ==
  /\ inflight[r].pc = "checked"
  /\ UNCHANGED whitelisted
  /\ req' = VoteRequest(inflight[r].token, inflight[r].electionId,
                        inflight[r].postId, inflight[r].candidateId)
  /\ UNCHANGED <<identityVars, electionVars>>
  /\ inflight' = [inflight EXCEPT ![r] = Idle]
  /\ SubmitAndRecord(inflight[r].token, inflight[r].electionId, inflight[r].postId,
                     inflight[r].candidateId, ledgerOutcome, isTxValid, dbOutcome)

(***************************************************************************)
(* The Authorization header, adminLogin and the handlers behind            *)
(* router.use(authenticateVoter) and router.use(authenticateAdmin)         *)
(***************************************************************************)
\* req.headers.authorization as the words between its spaces, <<>> when the
\* request has none
NoHeader == <<>>
\* the token of the header 'Bearer ', which ends after the space
EmptyToken == [email |-> Missing, walletAddress |-> NoWallet, role |-> ""]

\* authHeader && authHeader.startsWith('Bearer ')
startsWithBearer(authHeader) ==
  Len(authHeader) >= 2 /\ authHeader[1] = "Bearer"

\* authHeader.split(' ')[1] of a header the middleware goes on with, NoToken
\* for a header it stops at
headerToken(authHeader) ==
  IF startsWithBearer(authHeader) THEN authHeader[2] ELSE NoToken

\* the users table: the administrator of the seed script
AdminEmail == "admin@votex.com"
AdminPassword == "password"
findUserByEmail(email) ==
  IF email = AdminEmail
  THEN [email |-> AdminEmail, password |-> AdminPassword, role |-> "admin"]
  ELSE [email |-> Missing]

\* the payload of the token of an administrator: it has no walletAddress
AdminToken(user) == [email |-> user.email, walletAddress |-> NoWallet, role |-> user.role]

adminLogin(email, password) ==
  /\ UNCHANGED inflight
  /\ UNCHANGED whitelisted
  /\ req' = [op |-> "adminLogin", email |-> email, password |-> password]
  /\ effects' = <<>>
  /\ UNCHANGED <<voters, nextNonce, issued, authenticated, electionVars, voteVars>>
  /\ IF email = Missing \/ password = Missing
     THEN /\ resp' = Response(400, "Email and password are required")
          /\ UNCHANGED tokens
     ELSE LET user == findUserByEmail(email) IN
       IF user.email = Missing \/ user.role # "admin"
       THEN /\ resp' = Response(401, "Invalid credentials or not an admin user")
            /\ UNCHANGED tokens
       ELSE IF password # user.password
       THEN /\ resp' = Response(401, "Invalid credentials")
            /\ UNCHANGED tokens
       ELSE /\ tokens' = tokens \cup {AdminToken(user)}
            /\ resp' = Response(200, "")

\* adminRoutes.authenticateAdmin: the response of the middleware when it
\* stops the request, status 0 when it calls next()
authenticateAdmin(authHeader) ==
  IF ~startsWithBearer(authHeader)
  THEN Response(401, "Authentication token required")
  ELSE IF ~verifyToken(headerToken(authHeader))
  THEN Response(403, "Invalid or expired token")
  ELSE IF headerToken(authHeader).role # "admin"
  THEN Response(403, "Access denied. Admin role required")
  ELSE Response(0, "")

\* mysqlService.getVoterReceiptsByWalletAddress
getVoterReceiptsByWalletAddress(walletAddress) ==
  SelectSeq(voter_receipts,
            LAMBDA row : row.voter_wallet_address = toLowerCase(walletAddress))

\* mysqlService.getActiveElections: the ids of the active elections
getActiveElections == {id \in DOMAIN elections : elections[id].status = "active"}

\* GET /api/voters/receipts
getVoterVoteReceipts(authHeader) ==
  /\ UNCHANGED inflight
  /\ UNCHANGED whitelisted
  /\ req' = [op |-> "getVoterVoteReceipts", authHeader |-> authHeader]
  /\ effects' = <<>>
  /\ UNCHANGED <<identityVars, electionVars, voteVars>>
  /\ resp' = IF authenticateVoter(headerToken(authHeader)).status # 0
             THEN authenticateVoter(headerToken(authHeader))
             ELSE [status |-> 200, error |-> "",
                   receipts |-> getVoterReceiptsByWalletAddress(
                                  headerToken(authHeader).walletAddress)]

\* GET /api/voters/elections
getAvailableElections(authHeader) ==
  /\ UNCHANGED inflight
  /\ UNCHANGED whitelisted
  /\ req' = [op |-> "getAvailableElections", authHeader |-> authHeader]
  /\ effects' = <<>>
  /\ UNCHANGED <<identityVars, electionVars, voteVars>>
  /\ resp' = IF authenticateVoter(headerToken(authHeader)).status # 0
             THEN authenticateVoter(headerToken(authHeader))
             ELSE [status |-> 200, error |-> "", elections |-> getActiveElections]

\* GET /api/admin/elections
getAllElections(authHeader) ==
  /\ UNCHANGED inflight
  /\ UNCHANGED whitelisted
  /\ req' = [op |-> "getAllElections", authHeader |-> authHeader]
  /\ effects' = <<>>
  /\ UNCHANGED <<identityVars, electionVars, voteVars>>
  /\ resp' = IF authenticateAdmin(authHeader).status # 0
             THEN authenticateAdmin(authHeader)
             ELSE [status |-> 200, error |-> "", elections |-> elections]

(***************************************************************************)
(* The requests clients send                                               *)
(***************************************************************************)
\* the challenge messages issued so far, and the same text after another
\* prefix
Messages ==
  {MessageFor(n) : n \in 1..(nextNonce - 1)} \cup {<<OtherPrefix, 1>>}

\* signatures a client can present with a message: one made over it by
\* either wallet
Signatures(message) == {Sign(w, message) : w \in Wallets}

\* the bodies of POST /authenticate
AuthBodies ==
  LET full == UNION {
        {AuthRequest("voterAuthenticate", t[1], t[2], t[3], sg) : sg \in Signatures(t[3])} :
          t \in Voters \X ClaimedAddresses \X Messages }
  IN full \cup
     { AuthRequest("voterAuthenticate", UnknownEmail, WalletA, MessageFor(1),
                   Sign(WalletA, MessageFor(1))),
       AuthRequest("voterAuthenticate", Missing, Missing, NoMessage, NoSignature) }

WhitelistOutcomes == {"hash", "alreadyWhitelisted", "error"}

NextAuth ==
  \/ \E email \in Voters \cup {UnknownEmail, Missing} : requestVoterAuthMessage(email)
  \/ \E b \in AuthBodies :
       voterAuthenticate(b.message, b.signature, b.walletAddress, b.email)

SpecAuth == Init /\ [][NextAuth]_vars

\* the wallet whose key signs for a claimed address
Holder(walletAddress) ==
  CHOOSE w \in Wallets : toLowerCase(w) = toLowerCase(walletAddress)

\* the bodies a wallet holder sends: any challenge the voter was issued so
\* far, signed by the wallet that is claimed
SignedBodies ==
  {AuthRequest("voterAuthenticate", t[1][1], t[2], MessageFor(t[1][2]),
               Sign(Holder(t[2]), MessageFor(t[1][2]))) :
     t \in issued \X ClaimedAddresses}

NextIdentity ==
  \/ \E email \in Voters : requestVoterAuthMessage(email)
  \/ \E b \in SignedBodies :
       voterAuthenticate(b.message, b.signature, b.walletAddress, b.email)
  \/ \E b \in SignedBodies :
       voterAuthenticate_whitelisting(b.message, b.signature, b.walletAddress, b.email,
                                      "error")
  \/ \E a \in ClaimedAddresses, email \in Voters : whitelistVoter(1, a, email, "hash")
  \/ whitelistVoter(1, WalletB, "voter2@example.com", "error")
  \/ whitelistVoter(2, WalletB, UnknownEmail, "hash")
  \/ whitelistVoter(1, Missing, UnknownEmail, "hash")

SpecIdentity == Init /\ [][NextIdentity]_vars

\* the voters logging in through the revision with whitelisting, with every
\* outcome of the whitelisting call
NextWhitelisting ==
  \/ \E email \in Voters : requestVoterAuthMessage(email)
  \/ \E b \in SignedBodies, o \in WhitelistOutcomes :
       voterAuthenticate_whitelisting(b.message, b.signature, b.walletAddress, b.email, o)

SpecWhitelisting == Init /\ [][NextWhitelisting]_vars

\* the bodies of a client that answers the challenge it was last given
HonestBodies ==
  {b \in SignedBodies :
     b.message = MessageFor(voters[b.email].auth_nonce)}

\* the tallies the ledger reports for a candidate
Tallies == {0, 1}

\* what getFinalResultsFromChain returns for an election: Number(votes) for
\* every ledger id asked for, or the empty object after a read error
FinalResults(electionId) ==
  LET candidates == getCandidatesByElectionId(electionId)
      asked == {getCandidateById(candidates[i]).blockchain_candidate_id :
                  i \in DOMAIN candidates}
  IN [asked -> Tallies] \cup {<<>>}

LedgerOutcomes == {"hash", "error"}

\* the ballots sent with a token: for each candidate of post 1 of election
\* 1, and one each for the pending election 2, an election that does not
\* exist, a post of another election and a candidate of another post
Ballots ==
  {<<1, 1, 1>>, <<1, 1, 2>>, <<2, 2, 3>>, <<3, 1, 1>>, <<1, 2, 3>>, <<1, 1, 3>>}

NextVote ==
  \/ \E email \in Voters : requestVoterAuthMessage(email)
  \/ \E b \in HonestBodies :
       voterAuthenticate(b.message, b.signature, b.walletAddress, b.email)
  \/ startElection(1, "hash")
  \/ endElection(1, "hash", [bcId \in {"0xc1", "0xc2"} |-> 0])
  \/ \E t \in tokens, b \in Ballots : castVote(t, b[1], b[2], b[3], "hash", TRUE, "ok")
  \/ \E t \in {NoToken, ForgedToken} : castVote(t, 1, 1, 1, "hash", TRUE, "ok")

SpecVote == Init /\ [][NextVote]_vars

\* the bodies of voters who each keep one wallet: voter1 wallet A, voter2
\* wallet B
OwnWalletBodies ==
  {b \in HonestBodies :
     b.walletAddress = (IF b.email = "voter1@example.com"
                        THEN toLowerCase(WalletA) ELSE WalletB)}

NextVoteController ==
  \/ \E email \in Voters : requestVoterAuthMessage(email)
  \/ \E b \in OwnWalletBodies :
       voterAuthenticate(b.message, b.signature, b.walletAddress, b.email)
  \/ startElection(1, "hash")
  \/ endElection(1, "hash", [bcId \in {"0xc1", "0xc2"} |-> 0])
  \/ \E t \in tokens, b \in Ballots : castVote_voterController(t, b[1], b[2], b[3], "hash", "ok")
  \/ \E t \in {NoToken, ForgedToken} : castVote_voterController(t, 1, 1, 1, "hash", "ok")

SpecVoteController == Init /\ [][NextVoteController]_vars

\* either revision of the castVote handler, called by one voter
NextCast ==
  \/ \E email \in {"voter1@example.com"} : requestVoterAuthMessage(email)
  \/ \E b \in OwnWalletBodies :
       voterAuthenticate(b.message, b.signature, b.walletAddress, b.email)
  \/ startElection(1, "hash")
  \/ endElection(1, "hash", [bcId \in {"0xc1", "0xc2"} |-> 0])
  \/ \E t \in tokens, b \in Ballots : castVote(t, b[1], b[2], b[3], "hash", TRUE, "ok")
  \/ \E t \in tokens, b \in Ballots : castVote_voterController(t, b[1], b[2], b[3], "hash", "ok")

SpecCast == Init /\ [][NextCast]_vars

\* what castVoteOnChain does, what verifyVoteTransaction reports and what
\* the two INSERTs do
VoteLedgerOutcomes == {"hash", "empty", "error"}
DbOutcomes == {"ok", "logFails", "receiptFails"}

\* the ballots of the ledger run: both candidates of post 1 of election 1,
\* and a candidate of another post
LedgerBallots == {<<1, 1, 1>>, <<1, 1, 2>>, <<1, 1, 3>>}

\* one voter casting votes while the ledger and the database may fail
NextLedger ==
  \/ \E email \in {"voter1@example.com"} : requestVoterAuthMessage(email)
  \/ \E b \in OwnWalletBodies :
       voterAuthenticate(b.message, b.signature, b.walletAddress, b.email)
  \/ startElection(1, "hash")
  \/ \E t \in tokens, b \in LedgerBallots, o \in VoteLedgerOutcomes,
        v \in BOOLEAN, d \in DbOutcomes :
       castVote(t, b[1], b[2], b[3], o, v, d)

SpecLedger == Init /\ [][NextLedger]_vars

NextAdmin ==
  \/ \E fields \in {"fields", Missing}, o \in LedgerOutcomes : createElection(fields, o)
  \/ \E id \in 1..(MaxElections + 1),
        status \in {"pending", "active", "ended", "archived", Missing},
        w \in {NoCandidate, 1} :
       updateElectionStatus(id, status, w)
  \/ \E id \in 1..(MaxElections + 1), o \in LedgerOutcomes : startElection(id, o)
  \/ \E id \in 1..(MaxElections + 1), o \in LedgerOutcomes :
       \E r \in FinalResults(id) : endElection(id, o, r)

SpecAdmin == Init /\ [][NextAdmin]_vars

\* the administrator starting and ending the seeded elections, and one that
\* does not exist, while the ledger may fail
NextLifecycle ==
  \/ \E id \in 1..3, o \in LedgerOutcomes : startElection(id, o)
  \/ \E id \in 1..3, o \in LedgerOutcomes :
       \E r \in FinalResults(id) : endElection(id, o, r)

SpecLifecycle == Init /\ [][NextLifecycle]_vars

\* the ballots of concurrent requests: the two candidates of post 1 of
\* election 1
RaceBallots == {<<1, 1, 1>>, <<1, 1, 2>>}

\* one voter sending castVote requests that overlap, while the
\* administrator starts and ends the election
NextRace ==
  \/ \E email \in {"voter1@example.com"} : requestVoterAuthMessage(email)
  \/ \E b \in OwnWalletBodies :
       voterAuthenticate(b.message, b.signature, b.walletAddress, b.email)
  \/ startElection(1, "hash")
  \/ \E r \in Requests, t \in tokens, b \in RaceBallots :
       castVote_checks(r, t, b[1], b[2], b[3])
  \/ \E r \in Requests, o \in LedgerOutcomes : castVote_submits(r, o, TRUE, "ok")
  \/ endElection(1, "hash", [bcId \in {"0xc1", "0xc2"} |-> IF bcId = "0xc1" THEN 1 ELSE 0])

SpecRace == Init /\ [][NextRace]_vars

\* voters whose voterAuthenticate requests overlap: any challenge issued so
\* far, signed by the wallet that is claimed
NextConcurrentAuth ==
  \/ \E email \in Voters : requestVoterAuthMessage(email)
  \/ \E r \in Requests, b \in SignedBodies :
       voterAuthenticate_checks(r, b.message, b.signature, b.walletAddress, b.email)
  \/ \E r \in Requests : voterAuthenticate_updates(r)

SpecConcurrentAuth == Init /\ [][NextConcurrentAuth]_vars

\* the Authorization headers clients send: none, the word Bearer alone, and
\* a token the server issued, a forged one or none after either scheme
Headers ==
  {NoHeader, <<"Bearer">>}
    \cup {<<scheme, t>> : scheme \in {"Bearer", "Basic"},
                           t \in tokens \cup {ForgedToken, EmptyToken}}

\* a voter and the administrator logging in, and requests to the protected
\* routes of both routers with every header
NextRoutes ==
  \/ \E email \in {"voter1@example.com"} : requestVoterAuthMessage(email)
  \/ \E b \in OwnWalletBodies :
       voterAuthenticate(b.message, b.signature, b.walletAddress, b.email)
  \/ \E email \in {AdminEmail, UnknownEmail, Missing},
        password \in {AdminPassword, "guess"} :
       adminLogin(email, password)
  \/ startElection(1, "hash")
  \/ \E h \in Headers : castVote(headerToken(h), 1, 1, 1, "hash", TRUE, "ok")
  \/ \E h \in Headers : getVoterVoteReceipts(h)
  \/ \E h \in Headers : getAvailableElections(h)
  \/ \E h \in Headers : getAllElections(h)

SpecRoutes == Init /\ [][NextRoutes]_vars

(***************************************************************************)
(* Properties of authentication                                            *)
(***************************************************************************)
InvalidChallenge == Response(400, "Invalid or outdated authentication message")
SignatureMismatch == Response(401, "Signature verification failed")

\* the step handled a complete authenticate request for a registered voter
AuthStep ==
  /\ req'.op = "voterAuthenticate"
  /\ req'.email \in Voters
  /\ req'.message # NoMessage

\* the signature of the request was made over its message
ValidSignature(r) == r.signature.msg = r.message

\* ... by the wallet that the request claims
SignedByClaimed(r) ==
  /\ ValidSignature(r)
  /\ toLowerCase(r.signature.signer) = toLowerCase(r.walletAddress)

\* C3: after authenticate succeeds for a voter with a challenge, every later
\* authenticate of that voter with the message of that challenge, whatever
\* the signature, fails with InvalidChallenge and changes nothing; and every
\* successful authenticate, of either revision and on either branch, leaves
\* auth_nonce cleared.
C3_ReplayRejected ==
  [][ AuthStep =>
        /\ (\E n \in 1..MaxNonce :
              <<req'.email, n>> \in authenticated /\ req'.message = MessageFor(n))
             => (resp' = InvalidChallenge /\ UNCHANGED identityVars)
        /\ resp'.status = 200 => voters'[req'.email].auth_nonce = NoNonce ]_vars

\* a replay was answered: the request repeats a message that had
\* authenticated the voter, correctly signed, and got InvalidChallenge
C3_Witness ==
  /\ req.op = "voterAuthenticate"
  /\ resp = InvalidChallenge
  /\ \E n \in 1..MaxNonce :
       <<req.email, n>> \in authenticated /\ req.message = MessageFor(n)
  /\ SignedByClaimed(req)
  /\ voters[req.email].wallet_address = toLowerCase(req.walletAddress)

\* C4: authenticate succeeds only with the message of the nonce stored on
\* the voter row; the message of a challenge of the voter that was followed
\* by a newer challenge of the same voter is rejected with InvalidChallenge,
\* even when correctly signed.
C4_OnlyCurrentChallenge ==
  [][ AuthStep =>
        /\ resp'.status = 200 =>
             /\ voters[req'.email].auth_nonce # NoNonce
             /\ req'.message = MessageFor(voters[req'.email].auth_nonce)
        /\ (\E n, m \in 1..MaxNonce :
              /\ n < m
              /\ <<req'.email, n>> \in issued /\ <<req'.email, m>> \in issued
              /\ req'.message = MessageFor(n))
             => (resp' = InvalidChallenge /\ UNCHANGED identityVars) ]_vars

\* an unused, correctly signed challenge was rejected after a newer one had
\* been issued to the same voter and was still stored
C4_Witness ==
  /\ req.op = "voterAuthenticate"
  /\ resp = InvalidChallenge
  /\ SignedByClaimed(req)
  /\ \E n, m \in 1..MaxNonce :
       /\ n < m
       /\ <<req.email, n>> \in issued /\ <<req.email, m>> \in issued
       /\ <<req.email, n>> \notin authenticated
       /\ req.message = MessageFor(n)
       /\ voters[req.email].auth_nonce = m

\* C5: authenticate with a message that is not the prefix followed by the
\* nonce stored on the voter row, or when no nonce is stored, fails with
\* InvalidChallenge and changes nothing, whatever the signature is.
C5_ChallengeCheckedFirst ==
  [][ ( /\ AuthStep
        /\ \/ voters[req'.email].auth_nonce = NoNonce
           \/ req'.message # MessageFor(voters[req'.email].auth_nonce) )
      => (resp' = InvalidChallenge /\ UNCHANGED identityVars) ]_vars

\* a message with the stored nonce after another prefix, signed by a wallet
\* other than the one claimed, got InvalidChallenge and not SignatureMismatch
C5_Witness ==
  /\ req.op = "voterAuthenticate"
  /\ resp = InvalidChallenge
  /\ req.email \in Voters
  /\ voters[req.email].auth_nonce # NoNonce
  /\ req.message = <<OtherPrefix, voters[req.email].auth_nonce>>
  /\ ValidSignature(req)
  /\ ~SignedByClaimed(req)

\* C6: authenticate with the message of the stored nonce and a signature
\* made over it by a wallet whose address differs, letter case aside, from
\* the claimed one fails with SignatureMismatch; no token is issued and no
\* voter row changes.
C6_SignatureMismatch ==
  [][ ( /\ AuthStep
        /\ voters[req'.email].auth_nonce # NoNonce
        /\ req'.message = MessageFor(voters[req'.email].auth_nonce)
        /\ ValidSignature(req')
        /\ toLowerCase(req'.signature.signer) # toLowerCase(req'.walletAddress) )
      => (resp' = SignatureMismatch /\ tokens' = tokens /\ voters' = voters) ]_vars

\* the current challenge, signed by wallet B while wallet A is claimed, was
\* answered with SignatureMismatch
C6_Witness ==
  /\ req.op = "voterAuthenticate"
  /\ resp = SignatureMismatch
  /\ req.email \in Voters
  /\ req.message = MessageFor(voters[req.email].auth_nonce)
  /\ req.signature = Sign(WalletB, req.message)
  /\ req.walletAddress = toLowerCase(WalletA)

(***************************************************************************)
(* Properties of voting                                                    *)
(***************************************************************************)
InvalidState == Response(400, "Election is not active or does not exist")
AlreadyVoted == Response(403, "You have already voted for this post in this election")

\* the step handled a castVote request that passed the middleware and
\* named an election, a post and a candidate
VoteStep ==
  /\ req'.op = "castVote"
  /\ authenticateVoter(req'.token).status = 0
  /\ req'.electionId # NoCandidate /\ req'.postId # NoCandidate
  /\ req'.candidateId # NoCandidate

\* vote_logs holds a vote of the wallet for the post, for another candidate
VotedForAnother(r) ==
  \E i \in DOMAIN vote_logs :
    /\ vote_logs[i].election_id = r.electionId
    /\ vote_logs[i].post_id = r.postId
    /\ vote_logs[i].voter_wallet_address = r.token.walletAddress
    /\ vote_logs[i].candidate_id # r.candidateId

\* C1: a castVote that is otherwise valid, made when vote_logs already holds
\* a vote of the same wallet for the same post of the same election for
\* another candidate, fails with AlreadyVoted, appends no vote log and no
\* receipt, and makes no ledger submission.
C1_SecondVoteRejected ==
  [][ ( /\ VoteStep
        /\ VoteChecks(req'.electionId, req'.postId, req'.candidateId).status = 0
        /\ VotedForAnother(req') )
      => (resp' = AlreadyVoted /\ UNCHANGED voteVars) ]_vars

\* C2: castVote on an election whose status is pending or ended, or that
\* does not exist, fails with the invalid-state error, makes no ledger
\* submission and writes no vote log and no receipt.
C2_InactiveElectionRejected ==
  [][ ( /\ VoteStep
        /\ getElectionById(req'.electionId).status # "active" )
      => (resp' = InvalidState /\ UNCHANGED voteVars) ]_vars

\* a vote on election 1 was refused after the election, in which votes had
\* been cast, had ended
C2_Witness ==
  /\ req.op = "castVote"
  /\ resp = InvalidState
  /\ req.token \in tokens
  /\ req.electionId = 1 /\ req.postId = 1 /\ req.candidateId \in {1, 2}
  /\ elections[1].status = "ended"
  /\ vote_logs # <<>>

\* C7: no step moves an election's status otherwise than from pending to
\* active or from active to ended.
C7_StatusOnlyAdvances ==
  [][ \A id \in DOMAIN elections :
        \/ elections'[id].status = elections[id].status
        \/ elections[id].status = "pending" /\ elections'[id].status = "active"
        \/ elections[id].status = "active" /\ elections'[id].status = "ended" ]_vars

\* the voters (emails) that ever authenticated with a wallet: those a token
\* was issued to for it
AuthenticatedWith(walletAddress) ==
  {t.email : t \in {u \in tokens : u.walletAddress = walletAddress}}

\* C8: the wallet of every vote log row was verified by a successful
\* authenticate, and exactly one voter ever authenticated with it.
C8_VotesAttributable ==
  \A i \in DOMAIN vote_logs :
    Cardinality(AuthenticatedWith(vote_logs[i].voter_wallet_address)) = 1

\* C9: the castVote calls made with the tokens of one voter leave at most
\* one vote log row for any post of any election.
C9_OneVotePerVoter ==
  \A i, j \in DOMAIN vote_logs :
    ( /\ i # j
      /\ castBy[i] = castBy[j]
      /\ vote_logs[i].election_id = vote_logs[j].election_id )
    => vote_logs[i].post_id # vote_logs[j].post_id

\* an authenticate, of a registered voter with the current challenge signed
\* by the claimed wallet, or a whitelisting of a registered voter in an
\* election with a contract address, that names a wallet another voter holds
ConflictingBind ==
  \/ /\ AuthStep
     /\ AuthChecks(voters[req'.email], req'.message, req'.signature,
                   req'.walletAddress).status = 0
     /\ DuplicateWallet(req'.email, toLowerCase(req'.walletAddress))
  \/ /\ req'.op = "whitelistVoter"
     /\ req'.email \in Voters
     /\ req'.walletAddress # Missing
     /\ getElectionById(req'.electionId).status # Missing
     /\ getElectionById(req'.electionId).blockchain_contract_address # NoAddress
     /\ DuplicateWallet(req'.email, toLowerCase(req'.walletAddress))

\* C10: at most one voter row holds a wallet address, and a bind of a wallet
\* that another voter holds fails with a Conflict error (status 409) and
\* leaves the wallet of every voter as it was.
C10_WalletConflict ==
  [][ /\ \A e1, e2 \in Voters :
           (e1 # e2 /\ voters'[e1].wallet_address # NoWallet)
             => voters'[e1].wallet_address # voters'[e2].wallet_address
      /\ ConflictingBind =>
           /\ resp'.status = 409
           /\ \A e \in Voters : voters'[e].wallet_address = voters[e].wallet_address
    ]_vars

\* an authenticate that names the wallet of another voter was answered with
\* status 500, and both voters kept their wallets
C10_Witness ==
  /\ req.op = "voterAuthenticate"
  /\ resp = Response(500, "Failed to authenticate voter")
  /\ \E other \in Voters :
       /\ other # req.email
       /\ voters[other].wallet_address = toLowerCase(req.walletAddress)
       /\ voters[req.email].wallet_address # voters[other].wallet_address

(***************************************************************************)
(* Properties of the vote records and the ledger                           *)
(***************************************************************************)
\* the step handled a castVote request that reached the ledger, and the
\* ledger gave no transaction hash
LedgerFailedStep ==
  /\ req'.op = "castVote"
  /\ effects' # <<>>
  /\ ledgerVotes' = ledgerVotes

\* the row records a completed castVoteOnChain call of the same election,
\* post, ledger candidate id and wallet
SubmittedToLedger(row, submitted) ==
  \E k \in DOMAIN submitted :
    /\ submitted[k].transaction_hash = row.transaction_hash
    /\ submitted[k].election_id = row.election_id
    /\ submitted[k].post_id = row.post_id
    /\ submitted[k].blockchain_candidate_id
         = getCandidateById(row.candidate_id).blockchain_candidate_id
    /\ submitted[k].voter_wallet_address = row.voter_wallet_address

\* C11: the transaction hash of every vote log row was returned by a
\* completed castVoteOnChain call for the same election, post, ledger
\* candidate id and wallet, and a castVote whose ledger call throws or returns
\* no hash writes no vote log row and no receipt row.
C11_LoggedOnlyAfterLedger ==
  [][ /\ \A i \in DOMAIN vote_logs' : SubmittedToLedger(vote_logs'[i], ledgerVotes')
      /\ LedgerFailedStep =>
           /\ vote_logs' = vote_logs
           /\ voter_receipts' = voter_receipts
    ]_vars

\* a vote was logged after an earlier submission of the voter had reached
\* the ledger without being logged
C11_Witness ==
  /\ req.op = "castVote"
  /\ resp.status = 200
  /\ Len(vote_logs) = 1
  /\ Len(ledgerVotes) = 2
  /\ vote_logs[1].transaction_hash = ledgerVotes[2].transaction_hash

\* the rows of a table that carry the transaction hash
RowsWithHash(table, transactionHash) ==
  {i \in DOMAIN table : table[i].transaction_hash = transactionHash}

\* the row holds the ids and the lower-cased wallet of the request
RowOfRequest(row, r) ==
  /\ row.election_id = r.electionId
  /\ row.post_id = r.postId
  /\ row.candidate_id = r.candidateId
  /\ row.voter_wallet_address = toLowerCase(r.token.walletAddress)

\* C12: after a castVote that answers success, exactly one vote log row and
\* exactly one receipt row carry the transaction hash of the answer, and both
\* hold the election id, post id, candidate id and lower-cased wallet of the
\* request.
C12_OneLogOneReceipt ==
  [][ (req'.op = "castVote" /\ resp'.status = 200) =>
        /\ Cardinality(RowsWithHash(vote_logs', resp'.transactionHash)) = 1
        /\ Cardinality(RowsWithHash(voter_receipts', resp'.transactionHash)) = 1
        /\ \A i \in RowsWithHash(vote_logs', resp'.transactionHash) :
             RowOfRequest(vote_logs'[i], req')
        /\ \A i \in RowsWithHash(voter_receipts', resp'.transactionHash) :
             RowOfRequest(voter_receipts'[i], req')
    ]_vars

\* a vote for candidate 2 was answered with success and left its log row and
\* its receipt row
C12_Witness ==
  /\ req.op = "castVote"
  /\ resp.status = 200
  /\ req.candidateId = 2
  /\ \E i \in DOMAIN vote_logs :
       /\ vote_logs[i].transaction_hash = resp.transactionHash
       /\ vote_logs[i].candidate_id = 2
  /\ \E i \in DOMAIN voter_receipts :
       /\ voter_receipts[i] \in {vote_logs[j] : j \in DOMAIN vote_logs}
       /\ voter_receipts[i].transaction_hash = resp.transactionHash

(***************************************************************************)
(* Properties of the election lifecycle                                    *)
(***************************************************************************)
\* the final tally of a candidate in the results the ledger reported
TallyOf(candidateId, results) ==
  results[getCandidateById(candidateId).blockchain_candidate_id]

\* C13: the winner endElection stores is the candidate of the election with
\* the largest final tally, and among candidates with that tally the first in
\* the order of the candidates: every candidate before it has a smaller
\* tally, no candidate has a larger one.
C13_WinnerIsFirstMaximum ==
  [][ (req'.op = "endElection" /\ resp'.status = 200) =>
        LET id == req'.electionId
            candidates == getCandidatesByElectionId(id)
            winner == elections'[id].winning_candidate_id
        IN \E w \in DOMAIN candidates :
             /\ candidates[w] = winner
             /\ \A j \in DOMAIN candidates :
                  TallyOf(candidates[j], resp'.results)
                    <= TallyOf(winner, resp'.results)
             /\ \A j \in 1..(w - 1) :
                  TallyOf(candidates[j], resp'.results)
                    < TallyOf(winner, resp'.results)
    ]_vars

\* election 1 ended with its two candidates tied, and the first of them won
C13_Witness ==
  /\ req.op = "endElection"
  /\ resp.status = 200
  /\ elections[1].status = "ended"
  /\ resp.results = [bcId \in {"0xc1", "0xc2"} |-> 1]
  /\ elections[1].results = JSON_stringify(resp.results)
  /\ elections[1].winning_candidate_id = 1

\* the step handled a startElection or endElection request
LifecycleStep == req'.op \in {"startElection", "endElection"}

\* the status the operation of the request requires of the election
RequiredStatus(r) == IF r.op = "startElection" THEN "pending" ELSE "active"

\* the ledger call of the operation of the request
LifecycleCall(r) ==
  IF r.op = "startElection" THEN "startElectionOnChain" ELSE "endElectionOnChain"

\* C14: startElection and endElection change the election row only after
\* their ledger call succeeded: a request for an election that is not in the
\* required status (pending for start, active for end) fails without a ledger
\* call and without a change of the row, and a request whose ledger call
\* fails leaves the status, results and winning candidate of the election
\* as they were.
C14_RowChangesAfterLedger ==
  [][ LifecycleStep =>
        /\ getElectionById(req'.electionId).status # RequiredStatus(req') =>
             /\ resp'.status \in {400, 404}
             /\ effects' = <<>>
             /\ elections' = elections
        /\ (effects' = <<LifecycleCall(req')>> /\ resp'.status # 200) =>
             elections' = elections
        /\ elections' # elections =>
             /\ resp'.status = 200
             /\ effects' # <<>>
             /\ effects'[1] = LifecycleCall(req')
    ]_vars

\* the ledger call of endElection failed for the active election 1, which
\* stayed active without results and without a winner
C14_Witness ==
  /\ req = [op |-> "endElection", electionId |-> 1]
  /\ resp.status = 500
  /\ effects = <<"endElectionOnChain">>
  /\ elections[1] = ElectionRow("active", SystemContractAddress)

\* how many times the call is among the ledger calls of a step
Calls(made, call) == Cardinality({i \in DOMAIN made : made[i] = call})

\* C15: a castVote request calls castVoteOnChain at most once, and when the
\* call gives no transaction hash the request is answered with a failure.
C15_NoRetry ==
  [][ req'.op = "castVote" =>
        /\ Calls(effects', "castVoteOnChain") <= 1
        /\ Len(ledgerVotes') <= Len(ledgerVotes) + 1
        /\ LedgerFailedStep => resp'.status = 500
    ]_vars

\* castVoteOnChain returned no transaction hash, once, and the request was
\* answered with status 500
C15_Witness ==
  /\ req.op = "castVote"
  /\ effects = <<"castVoteOnChain">>
  /\ resp = Response(500, "Failed to record vote on blockchain")
  /\ ledgerVotes = <<>>

\* the step handled a castVote request whose ledger call returned a
\* transaction hash and whose vote log or receipt was not written
WriteFailedStep ==
  /\ req'.op = "castVote"
  /\ Len(ledgerVotes') = Len(ledgerVotes) + 1
  /\ \/ vote_logs' = vote_logs
     \/ voter_receipts' = voter_receipts

\* C16: when the ledger returned a transaction hash and the write of the
\* vote log or of the receipt then fails, the answer is an error of status
\* 5xx that carries that transaction hash.
C16_ErrorCarriesHash ==
  [][ WriteFailedStep =>
        /\ resp'.status >= 500
        /\ "transactionHash" \in DOMAIN resp'
        /\ resp'.transactionHash
             = ledgerVotes'[Len(ledgerVotes')].transaction_hash
    ]_vars

\* the vote reached the ledger, the vote log was written, the write of the
\* receipt failed and the answer was the error of the catch
C16_Witness ==
  /\ req.op = "castVote"
  /\ resp = Response(500, "Failed to cast vote")
  /\ Len(ledgerVotes) = 1
  /\ Len(vote_logs) = 1
  /\ voter_receipts = <<>>

\* the log line is among those of the step
Logged(made, line) == \E i \in DOMAIN made : made[i] = line

\* C17: when verifyVoteTransaction reports that the transaction of a vote
\* does not verify, the handler logs the CRITICAL line and goes on as after a
\* verified transaction: unless an INSERT throws, it appends the vote log row
\* and the receipt row of the transaction hash and answers success; the
\* voter is never answered with a verification error.
C17_MismatchOnlyLogged ==
  [][ (req'.op = "castVote" /\ Logged(effects', "CRITICAL")) =>
        LET transactionHash == ledgerVotes'[Len(ledgerVotes')].transaction_hash
            row == VoteRow(req'.electionId, req'.postId, req'.candidateId,
                           req'.token.walletAddress, transactionHash)
        IN /\ Len(ledgerVotes') = Len(ledgerVotes) + 1
           /\ resp' \in {VoteResponse(req'.electionId, req'.postId, req'.candidateId,
                                      req'.token.walletAddress, transactionHash),
                         Response(500, "Failed to cast vote")}
           /\ ~Logged(effects', "Error casting vote") =>
                /\ resp'.status = 200
                /\ vote_logs' = Append(vote_logs, row)
                /\ voter_receipts' = Append(voter_receipts, row)
    ]_vars

\* a vote whose transaction did not verify was logged as CRITICAL, recorded
\* in both tables and answered with success
C17_Witness ==
  /\ req.op = "castVote"
  /\ effects = <<"castVoteOnChain", "verifyVoteTransaction", "CRITICAL">>
  /\ resp.status = 200
  /\ Len(vote_logs) = 1
  /\ Len(voter_receipts) = 1
  /\ vote_logs[1].transaction_hash = resp.transactionHash

(***************************************************************************)
(* Properties of the whitelisting of voterAuthenticate and of the          *)
(* registration status                                                     *)
(***************************************************************************)
\* the step handled an authenticate request that passed the challenge and
\* signature checks and whose whitelisting call failed
WhitelistFailedStep ==
  /\ AuthStep
  /\ AuthChecks(voters[req'.email], req'.message, req'.signature,
                req'.walletAddress).status = 0
  /\ \/ Logged(effects', "already globally whitelisted")
     \/ Logged(effects', "Error during automated whitelisting")

\* the request of the step was answered with a token, the nonce of its voter
\* is cleared and its wallet is the one the request claimed
Authenticated ==
  /\ resp'.status = 200
  /\ VoterToken(voters[req'.email], req'.walletAddress) \in tokens'
  /\ voters'[req'.email].auth_nonce = NoNonce
  /\ voters'[req'.email].wallet_address = toLowerCase(req'.walletAddress)

\* C18, as stated: whenever the challenge and signature checks pass, an
\* authenticate whose whitelisting call fails, the already whitelisted
\* outcome included, still clears the nonce, binds the wallet and returns a
\* token.
C18_WhitelistNeverBlocks ==
  [][ WhitelistFailedStep => Authenticated ]_vars

\* C18, amended: the same for every claimed wallet that no other voter
\* holds; a claimed wallet of another voter fails the UPDATE, whatever the
\* whitelisting call did.
C18_WhitelistFailureDoesNotBlock ==
  [][ ( /\ WhitelistFailedStep
        /\ ~DuplicateWallet(req'.email, toLowerCase(req'.walletAddress)) )
        => Authenticated ]_vars

\* the whitelisting call of an authenticate threw, and the voter was
\* answered with a token, with the wallet linked and the nonce cleared
C18_Witness ==
  /\ req.op = "voterAuthenticate"
  /\ Logged(effects, "Error during automated whitelisting")
  /\ resp.status = 200
  /\ voters[req.email].wallet_address = toLowerCase(req.walletAddress)
  /\ voters[req.email].auth_nonce = NoNonce
  /\ voters[req.email].registration_status = "wallet_linked"

\* the place of a status in the ENUM of voters.registration_status
StatusRank(status) ==
  CASE status = "pending_email_verification" -> 0
    [] status = "email_verified" -> 1
    [] status = "wallet_linked" -> 2
    [] status = "eligible_on_chain" -> 3

\* after a successful authenticate the status of the voter is wallet_linked
\* or later
AtLeastWalletLinked ==
  (req'.op = "voterAuthenticate" /\ resp'.status = 200) =>
    StatusRank(voters'[req'.email].registration_status)
      >= StatusRank("wallet_linked")

\* C20: no authenticate and no whitelisting by the administrator moves the
\* registration_status of a voter to an earlier stage of
\* pending_email_verification < email_verified < wallet_linked <
\* eligible_on_chain, and after a successful authenticate the status of the
\* voter is wallet_linked or later.
C20_StatusMonotonic ==
  [][ /\ \A e \in Voters :
           StatusRank(voters'[e].registration_status)
             >= StatusRank(voters[e].registration_status)
      /\ AtLeastWalletLinked
    ]_vars

(***************************************************************************)
(* Properties of the protected routes                                      *)
(***************************************************************************)
\* the Authorization header of a request; the castVote request holds the
\* token of its header, NoToken for a header that is absent or malformed
HeaderOf(r) ==
  IF "authHeader" \in DOMAIN r THEN r.authHeader
  ELSE IF r.token = NoToken THEN NoHeader
  ELSE <<"Bearer", r.token>>

\* the answers of the two middlewares
Unauthorized == Response(401, "Authentication token required")
InvalidToken == Response(403, "Invalid or expired token")
VoterForbidden == Response(403, "Access denied")
AdminForbidden == Response(403, "Access denied. Admin role required")

\* the step handled a request to a route behind authenticateVoter,
\* behind authenticateAdmin
VoterRouteStep ==
  req'.op \in {"castVote", "getVoterVoteReceipts", "getAvailableElections"}
AdminRouteStep == req'.op = "getAllElections"

\* the request of the step got past the middleware of its router
ReachedHandler ==
  resp' \notin {Unauthorized, InvalidToken, VoterForbidden, AdminForbidden}

\* C19: a request reaches a handler behind authenticateVoter only with a
\* header 'Bearer <token>' whose token verifies, has the role voter and
\* carries a wallet address; a request reaches a handler behind
\* authenticateAdmin only with such a header whose token verifies and has the
\* role admin; on both routers an absent or malformed header is answered
\* 401, and a verified token of the wrong role, or a voter token without a
\* wallet address, is answered 403.
C19_ProtectedRoutes ==
  [][ (VoterRouteStep \/ AdminRouteStep) =>
        LET authHeader == HeaderOf(req')
            token == headerToken(authHeader)
            allowed == IF VoterRouteStep
                       THEN token.role = "voter" /\ token.walletAddress # NoWallet
                       ELSE token.role = "admin"
        IN /\ ReachedHandler =>
                (startsWithBearer(authHeader) /\ verifyToken(token) /\ allowed)
           /\ ~startsWithBearer(authHeader) => resp' = Unauthorized
           /\ (startsWithBearer(authHeader) /\ verifyToken(token) /\ ~allowed) =>
                (resp'.status = 403 /\ ~ReachedHandler)
    ]_vars

\* the token of the administrator, sent as Bearer to the receipts route of
\* the voters, was answered 403
C19_Witness ==
  /\ req.op = "getVoterVoteReceipts"
  /\ startsWithBearer(req.authHeader)
  /\ verifyToken(req.authHeader[2])
  /\ req.authHeader[2].role = "admin"
  /\ resp = VoterForbidden

(***************************************************************************)
(* Properties of the stored results                                        *)
(***************************************************************************)
\* C21: an election whose status is pending or active has no stored results
\* and no winning candidate.
C21_ResultsOnlyAtEnded ==
  \A id \in DOMAIN elections :
    elections[id].status \in {"pending", "active"} =>
      /\ elections[id].results = NoResults
      /\ elections[id].winning_candidate_id = NoCandidate

\* election 1 was set back to pending by a status update and still holds
\* the results and the winner stored when it ended
C21_Witness ==
  /\ req.op = "updateElectionStatus"
  /\ req.electionId = 1
  /\ resp.status = 200
  /\ elections[1].status = "pending"
  /\ elections[1].results # NoResults
  /\ elections[1].winning_candidate_id # NoCandidate

\* the nonces voter `email` has consumed by authenticating
ConsumedNonces(email) == {p[2] : p \in {q \in authenticated : q[1] = email}}

\* C22: after a successful voterAuthenticate the stored wallet, the wallet
\* in the token and the wallet in the response all equal the lower-cased
\* claimed address, whatever its letter case; a successful
\* requestVoterAuthMessage stores and returns a nonce the voter has not
\* consumed before.
C22_LowerCasedWalletFreshNonce ==
  [][/\ (req'.op = "voterAuthenticate" /\ resp'.status = 200) =>
          /\ voters'[req'.email].wallet_address = toLowerCase(req'.walletAddress)
          /\ resp'.walletAddress = toLowerCase(req'.walletAddress)
          /\ resp'.token.walletAddress = toLowerCase(req'.walletAddress)
          /\ resp'.token \in tokens'
     /\ (req'.op = "requestVoterAuthMessage" /\ resp'.status = 200) =>
          /\ voters'[req'.email].auth_nonce # NoNonce
          /\ resp'.messageToSign = MessageFor(voters'[req'.email].auth_nonce)
          /\ voters'[req'.email].auth_nonce \notin ConsumedNonces(req'.email)
    ]_vars

C22_Witness ==
  /\ req.op = "requestVoterAuthMessage"
  /\ resp.status = 200
  /\ req.email = "voter1@example.com"
  /\ ConsumedNonces(req.email) # {}
  /\ voters[req.email].wallet_address = toLowerCase(WalletB)
  /\ voters[req.email].wallet_address # WalletB
  /\ \E t \in tokens : t.email = req.email /\ t.walletAddress = toLowerCase(WalletB)

\* the vote_logs rows of a wallet for a post of an election
RowsOfKey(electionId, postId, walletAddress) ==
  {i \in DOMAIN vote_logs :
     /\ vote_logs[i].election_id = electionId
     /\ vote_logs[i].post_id = postId
     /\ vote_logs[i].voter_wallet_address = walletAddress}

\* C23: the vote_logs check and the write are separate steps, so requests
\* that overlap can each pass the check and each write a row: a wallet has
\* at most as many rows for a post of an election as there are requests
\* running at the same time, and two rows are reached.
C23_RowsBoundedByOverlap ==
  \A i \in DOMAIN vote_logs :
    Cardinality(RowsOfKey(vote_logs[i].election_id, vote_logs[i].post_id,
                          vote_logs[i].voter_wallet_address))
      <= Cardinality(Requests)

C23_Witness ==
  /\ req.op = "castVote"
  /\ resp.status = 200
  /\ Len(ledgerVotes) = 2
  /\ Cardinality(RowsOfKey(1, 1, toLowerCase(WalletA))) = 2
  /\ vote_logs[1].transaction_hash # vote_logs[2].transaction_hash

\* the rows of a table, or the votes on the ledger, of an election
OfElection(rows, electionId) ==
  {i \in DOMAIN rows : rows[i].election_id = electionId}

\* C25: once an election's status is ended, no further vote log or receipt
\* row is appended for it and no further vote for it is submitted to the
\* ledger, also when a castVote that passed its status check while the
\* election was active goes on after endElection has completed.
C25_NoVoteAfterEnded ==
  [][\A id \in DOMAIN elections :
       elections[id].status = "ended" =>
         /\ OfElection(vote_logs', id) = OfElection(vote_logs, id)
         /\ OfElection(voter_receipts', id) = OfElection(voter_receipts, id)
         /\ OfElection(ledgerVotes', id) = OfElection(ledgerVotes, id)
    ]_vars

C25_Witness ==
  /\ elections[1].status = "ended"
  /\ req.op = "castVote"
  /\ req.electionId = 1
  /\ resp.status = 200
  /\ vote_logs # <<>>
  /\ vote_logs[Len(vote_logs)].transaction_hash = resp.transactionHash
  /\ elections[1].results = JSON_stringify([bcId \in {"0xc1", "0xc2"} |-> IF bcId = "0xc1" THEN 1 ELSE 0])
  /\ Len(vote_logs) = 1

\* the nonce a message to sign was built from
NonceOf(message) == message[2]

\* C24: a challenge is single-use under every interleaving: a
\* voterAuthenticate that answers 200 answers a challenge that no earlier
\* voterAuthenticate has answered with 200, also when requests with the same
\* message and signature overlap between the read of the nonce and its
\* clearing.
C24_SingleUseUnderInterleaving ==
  [][(req'.op = "voterAuthenticate" /\ resp'.status = 200) =>
       <<req'.email, NonceOf(req'.message)>> \notin authenticated]_vars

C24_Witness ==
  /\ req.op = "voterAuthenticate"
  /\ resp.status = 200
  /\ nextNonce = 2
  /\ issued = {<<req.email, NonceOf(req.message)>>}
  /\ Cardinality({t \in tokens : t.email = req.email}) = 2
  /\ \A r \in Requests : inflight[r].pc = "idle"

\* the post of a row belongs to its election and the candidate to its post
Consistent(electionId, postId, candidateId) ==
  /\ getPostById(postId).id # NoCandidate
  /\ getPostById(postId).election_id = electionId
  /\ getCandidateById(candidateId).id # NoCandidate
  /\ getCandidateById(candidateId).post_id = postId

\* C26: every vote log row names a post of its election and a candidate of
\* its post; a castVote whose post is not in the election, or whose
\* candidate is not in the post, is answered with an error before the
\* ledger is called and writes nothing.
C26_RowsReferentiallyConsistent ==
  [][/\ \A i \in DOMAIN vote_logs' :
          Consistent(vote_logs'[i].election_id, vote_logs'[i].post_id,
                     vote_logs'[i].candidate_id)
     /\ (/\ req'.op = "castVote"
         /\ ~Consistent(req'.electionId, req'.postId, req'.candidateId)) =>
          /\ resp'.status \in {400, 401, 403}
          /\ effects' = <<>>
          /\ UNCHANGED voteVars
          /\ (authenticateVoter(req'.token).status = 0
              /\ getElectionById(req'.electionId).status = "active") =>
               resp'.error \in {"Invalid post ID for this election",
                                "Invalid candidate ID for this post"}
    ]_vars

C26_Witness ==
  /\ req.op = "castVote"
  /\ req.electionId = 1 /\ req.postId = 1 /\ req.candidateId = 3
  /\ elections[1].status = "active"
  /\ resp = Response(400, "Invalid candidate ID for this post")
  /\ Len(vote_logs) = 1
  /\ Len(ledgerVotes) = 1

\* the answers of a voterAuthenticate that failed on the email, on the
\* challenge or on the signature
FailedAuthentications ==
  {Response(404, "Voter profile not found"),
   Response(400, "Invalid or outdated authentication message"),
   Response(401, "Signature verification failed")}

\* a correct voterAuthenticate for the challenge voter `email` holds now
\* would pass the checks
ChallengeUsable(email, row) ==
  \A walletAddress \in ClaimedAddresses :
    AuthChecks(row, MessageFor(row.auth_nonce),
               Sign(Holder(walletAddress), MessageFor(row.auth_nonce)),
               walletAddress).status = 0

\* C27: a voterAuthenticate that fails on an unknown email, on the challenge
\* or on the signature leaves the voter rows as they were, the nonce not
\* consumed and the wallet and the status kept, and issues no token; a
\* challenge that was outstanding can still be answered correctly.
C27_FailedAuthenticateChangesNothing ==
  [][(req'.op = "voterAuthenticate" /\ resp' \in FailedAuthentications) =>
       /\ voters' = voters
       /\ tokens' = tokens
       /\ authenticated' = authenticated
       /\ \A email \in Voters :
            voters[email].auth_nonce # NoNonce =>
              /\ voters'[email].auth_nonce = voters[email].auth_nonce
              /\ ChallengeUsable(email, voters'[email])
    ]_vars

C27_Witness ==
  /\ req.op = "voterAuthenticate"
  /\ resp = Response(401, "Signature verification failed")
  /\ req.email \in Voters
  /\ voters[req.email].auth_nonce # NoNonce
  /\ req.message = MessageFor(voters[req.email].auth_nonce)
  /\ voters[req.email].wallet_address = toLowerCase(WalletA)
  /\ ChallengeUsable(req.email, voters[req.email])

\* C28: in every state, also after a failure between the two INSERTs of
\* castVote, every receipt row has a vote log row with the same transaction
\* hash, written for the same election, post, candidate and wallet; a vote
\* log row may have no receipt.
C28_ReceiptHasVoteLog ==
  \A i \in DOMAIN voter_receipts :
    \E j \in DOMAIN vote_logs :
      /\ vote_logs[j].transaction_hash = voter_receipts[i].transaction_hash
      /\ vote_logs[j] = voter_receipts[i]

C28_Witness ==
  /\ req.op = "castVote"
  /\ resp = Response(500, "Failed to cast vote")
  /\ Len(vote_logs) = 1
  /\ vote_logs[1].transaction_hash = ledgerVotes[Len(ledgerVotes)].transaction_hash
  /\ voter_receipts = <<>>

\* the row is marked eligible, by its flag or by its status
MarkedEligible(row) ==
  \/ row.is_eligible_on_chain
  \/ row.registration_status = "eligible_on_chain"

\* C29: a voter marked eligible, by is_eligible_on_chain or by the status
\* eligible_on_chain, has a stored wallet for which a whitelisting call on
\* the ledger succeeded; a voter who was eligible and links a new wallet
\* whose whitelisting call fails is not left marked eligible.
C29_EligibleWalletIsWhitelisted ==
  \A email \in Voters :
    MarkedEligible(voters[email]) =>
      /\ voters[email].wallet_address # NoWallet
      /\ voters[email].wallet_address \in whitelisted

C29_Witness ==
  /\ req.op = "whitelistVoter"
  /\ resp = Response(500, "Failed to whitelist voter")
  /\ effects = <<"whitelistVoterOnChain">>
  /\ req.email \in Voters
  /\ voters[req.email].registration_status = "eligible_on_chain"
  /\ voters[req.email].wallet_address = toLowerCase(req.walletAddress)
  /\ voters[req.email].wallet_address \notin whitelisted

\* the precondition of createPost, addCandidateToPost, auditElection,
\* getElectionResults and getVoterElectionStatus on the row they read
HasContractAddress(election) ==
  election.blockchain_contract_address # NoAddress

\* C30: after createElection has answered 201, the row it stored carries the
\* configured contract address, so the operations that require
\* blockchain_contract_address of the election pass that precondition.
C30_CreatedElectionHasContract ==
  [][(req'.op = "createElection" /\ resp'.status = 201) =>
       /\ Len(elections') = Len(elections) + 1
       /\ HasContractAddress(elections'[Len(elections')])
       /\ elections'[Len(elections')].blockchain_contract_address
            = SystemContractAddress
    ]_vars

C30_Witness ==
  /\ req.op = "createElection"
  /\ resp.status = 201
  /\ effects = <<"createElectionOnChain">>
  /\ Len(elections) = 3
  /\ elections[3].status = "pending"
  /\ ~HasContractAddress(elections[3])
  /\ HasContractAddress(elections[1])

====
